---- MODULE Spec2Model ----
(***************************************************************************)
(* CleanSpeechBot: the pending-request table of the voice handler, the     *)
(* asyncio task queue with its worker loops, and the voice pipeline.       *)
(*                                                                         *)
(* The specifications of the module:                                       *)
(*   SpecStore  bot/handlers/voice_handler.py: _queue_summary_request,     *)
(*              handle_summary_callback and the expiry sweep;              *)
(*              SpecStoreFair adds the passing of time and the event       *)
(*              loop's fairness;                                           *)
(*   SpecQueue  bot/utils/workers.py with VoicePipeline.process_voice as   *)
(*              the producer of jobs; SpecQueueFair adds the event loop's  *)
(*              fairness and SpecQueueLive that of every ready task;       *)
(*              SpecStart is the queue before any shutdown, with its       *)
(*              start_workers calls recorded; SpecOwner adds the handlers  *)
(*              that own the downloaded files, and their cancellation;     *)
(*   SpecPipe   bot/services/pipeline.py: one process_voice call, the job  *)
(*              run inline as tests/test_pipeline.py does, alone or from   *)
(*              the handler of a request;                                  *)
(*   SpecRoute  the message handlers of voice_handler.py, which choose     *)
(*              between the button flow and the immediate flow.            *)
(* Each specification leaves the variables of the others unchanged.        *)
(***************************************************************************)
EXTENDS Integers, Sequences, FiniteSets, TLC

(***************************************************************************)
(* Bounds of the model.                                                    *)
(***************************************************************************)
\* callback handlers (button presses) that call handle_summary_callback
NumCallbacks == 2
\* how many times the clock advances
MaxTicks == 2

\* process_voice calls (each creates one job)
NumProducers == 3
\* worker loops that start_workers may create
NumWorkers == 2
\* largest maxsize the queue is built with
QueueLimit == 2

\* longest transcript and longest formatter output, in characters
MaxLen == 3

\* _REQUEST_TTL_SECONDS
REQUEST_TTL_SECONDS == 900

\* the clock advances in steps of one TTL, so that ages of exactly one TTL
\* (not expired) and of two TTL (expired) both occur
TickStep == REQUEST_TTL_SECONDS

\* keys f"{chat_id}:{message_id}" of the messages that reach the handlers
Keys == {"1:10", "1:11"}

\* the message handlers that call _queue_summary_request: two, so that a key
\* can be stored twice and two keys can be in the table together
Adders == {<<"add", 1>>, <<"add", 2>>}

\* identities of the request objects: each call builds one
EntryIds == {a[2] : a \in Adders}
Callbacks == {<<"cb", i>> : i \in 1..NumCallbacks}

NoOne == <<"none", 0>>

(***************************************************************************)
(* State of the pending table and of its handlers.                         *)
(***************************************************************************)
VARIABLES
    pending,      \* _PENDING_REQUESTS: key -> PendingVoiceRequest or NoEntry
    lockOwner,    \* _PENDING_LOCK: the handler holding it, or NoOne
    lockQ,        \* _PENDING_LOCK: handlers suspended in acquire(), in order
    now,          \* time.time()
    add,          \* each _queue_summary_request call: pc, key, created
    cb,           \* each handle_summary_callback call: pc, key, req, outcome,
                  \* answer, raised
    swept,        \* the entries the expiry sweep of the last step removed
    wins          \* per request object: how often in_progress was set on it

storeVars == <<pending, lockOwner, lockQ, now, add, cb, swept, wins>>

\* absence of an entry (dict.get returning None)
NoEntry == [id |-> 0, created_at |-> 0, in_progress |-> FALSE]

\* PendingVoiceRequest(..., created_at=time.time()), in_progress defaults to False;
\* id stands for the identity of the Python object
PendingVoiceRequest(id, created) ==
    [id |-> id, created_at |-> created, in_progress |-> FALSE]

\* now = now or time.time()
EffectiveNow(n) == IF n = 0 THEN now ELSE n

\* a sweep that spares the requests in progress
IsExpiredPendingOnly(request, n) ==
    n - request.created_at > REQUEST_TTL_SECONDS /\ ~request.in_progress

\* a sweep that takes the requests of exactly the TTL as well
IsExpiredAtTtl(request, n) == n - request.created_at >= REQUEST_TTL_SECONDS

\* a sweep that removes nothing
NoCleanup(tbl, n) == tbl

\* a locked section that lets every confirmation through
DecideAlwaysWon(request) == "won"

\* the test of the list comprehension: now - request.created_at > _REQUEST_TTL_SECONDS
IsExpired(request, n) == n - request.created_at > REQUEST_TTL_SECONDS

\* expired_keys of _cleanup_expired_requests_locked
ExpiredKeys(tbl, n) ==
    {k \in Keys : tbl[k] # NoEntry /\ IsExpired(tbl[k], EffectiveNow(n))}

\* the table after _cleanup_expired_requests_locked(now=n)
CleanupExpired(tbl, n) ==
    [k \in Keys |-> IF k \in ExpiredKeys(tbl, n) THEN NoEntry ELSE tbl[k]]

\* the entries _cleanup_expired_requests_locked(now=n) pops, each with its key
SweptEntries(tbl, n) == {[key |-> k] @@ tbl[k] : k \in ExpiredKeys(tbl, n)}

\* a finally block that pops nothing
PopNothing(tbl, key) == tbl

\* _PENDING_REQUESTS[key] = request, whatever the key held before
StoreRequest(tbl, key, request) == [tbl EXCEPT ![key] = request]

\* _PENDING_REQUESTS.pop(key, None)
PopRequest(tbl, key) == [tbl EXCEPT ![key] = NoEntry]

\* a locked section that lets every present request through
DecideIgnoringFlag(request) ==
    IF request = NoEntry THEN "notfound" ELSE "won"

\* the branches of the locked section of handle_summary_callback
Decide(request) ==
    IF request = NoEntry THEN "notfound"
    ELSE IF request.in_progress THEN "already"
    ELSE "won"

\* the text callback.answer is given on each branch
AnswerText(outcome) ==
    CASE outcome = "notfound" -> "not found or expired"
      [] outcome = "already"  -> "already being processed"
      [] outcome = "won"      -> "starting processing"

(***************************************************************************)
(* asyncio.Lock: acquire() takes a free lock with no waiters at once and   *)
(* queues otherwise; release() hands the lock to the first waiter.         *)
(***************************************************************************)
LockFree == lockOwner = NoOne /\ lockQ = <<>>

Release ==
    /\ lockOwner' = IF lockQ = <<>> THEN NoOne ELSE Head(lockQ)
    /\ lockQ' = IF lockQ = <<>> THEN <<>> ELSE Tail(lockQ)

\* a section that takes and releases the lock with no await in between
\* leaves the lock as it found it
LockUntouched == UNCHANGED <<lockOwner, lockQ>>

\* acquire() on a lock that is held or has waiters suspends the caller
Suspend(h) ==
    /\ ~LockFree
    /\ lockQ' = Append(lockQ, h)
    /\ UNCHANGED lockOwner

\* handlers of one kind are interchangeable: they are numbered in the order
\* in which they start
StartsInOrder(procs, h) ==
    \A g \in DOMAIN procs : g[2] < h[2] => procs[g].pc # "idle"

\* the locals of a handler that has not started, or has returned
IdleAdd == [pc |-> "idle", key |-> "", created |-> 0]
DoneAdd == [pc |-> "done", key |-> "", created |-> 0]
IdleCb ==
    [pc |-> "idle", key |-> "", req |-> 0, outcome |-> "none", answer |-> "",
     raised |-> FALSE]
DoneCb ==
    [pc |-> "done", key |-> "", req |-> 0, outcome |-> "none", answer |-> "",
     raised |-> FALSE]

StoreInit ==
    /\ pending = [k \in Keys |-> NoEntry]
    /\ lockOwner = NoOne
    /\ lockQ = <<>>
    /\ now = TickStep
    /\ add = [a \in Adders |-> IdleAdd]
    /\ cb = [c \in Callbacks |-> IdleCb]
    /\ swept = {}
    /\ wins = [i \in EntryIds |-> 0]

\* the clock moves on
Tick ==
    /\ now < TickStep * (MaxTicks + 1)
    /\ now' = now + TickStep
    /\ swept' = {}
    /\ UNCHANGED <<pending, lockOwner, lockQ, add, cb, wins>>

(***************************************************************************)
(* _queue_summary_request                                                  *)
(***************************************************************************)
\* async with _PENDING_LOCK: sweep with now=request.created_at, then store
AddLockedSection(a, key, created) ==
    /\ pending' = StoreRequest(CleanupExpired(pending, created), key,
                               PendingVoiceRequest(a[2], created))
    /\ swept' = SweptEntries(pending, created)

\* the request object is built (created_at read) and the lock is asked for
AddBegin(a, k) ==
    /\ add[a].pc = "idle"
    /\ StartsInOrder(add, a)
    /\ \/ /\ LockFree
          /\ AddLockedSection(a, k, now)
          /\ add' = [add EXCEPT ![a] = [pc |-> "reply", key |-> k, created |-> now]]
          /\ LockUntouched
       \/ /\ Suspend(a)
          /\ add' = [add EXCEPT ![a] = [pc |-> "wait_lock", key |-> k, created |-> now]]
          /\ swept' = {}
          /\ UNCHANGED pending
    /\ UNCHANGED <<now, cb, wins>>

\* the lock was handed over: the locked section runs with the created_at read earlier
AddResume(a) ==
    /\ add[a].pc = "wait_lock"
    /\ lockOwner = a
    /\ AddLockedSection(a, add[a].key, add[a].created)
    /\ Release
    /\ add' = [add EXCEPT ![a].pc = "reply"]
    /\ UNCHANGED <<now, cb, wins>>

\* message.reply(...) with the inline button succeeded
AddReplyOk(a) ==
    /\ add[a].pc = "reply"
    /\ add' = [add EXCEPT ![a] = DoneAdd]
    /\ swept' = {}
    /\ UNCHANGED <<pending, lockOwner, lockQ, now, cb, wins>>

\* message.reply raised TelegramAPIError: the key is popped under the lock,
\* then message.answer(...) tells the user
AddReplyFails(a) ==
    /\ add[a].pc = "reply"
    /\ \/ /\ LockFree
          /\ pending' = PopRequest(pending, add[a].key)
          /\ add' = [add EXCEPT ![a] = DoneAdd]
          /\ LockUntouched
       \/ /\ Suspend(a)
          /\ add' = [add EXCEPT ![a].pc = "wait_pop"]
          /\ UNCHANGED pending
    /\ swept' = {}
    /\ UNCHANGED <<now, cb, wins>>

AddPopResume(a) ==
    /\ add[a].pc = "wait_pop"
    /\ lockOwner = a
    /\ pending' = PopRequest(pending, add[a].key)
    /\ Release
    /\ add' = [add EXCEPT ![a] = DoneAdd]
    /\ swept' = {}
    /\ UNCHANGED <<now, cb, wins>>

(***************************************************************************)
(* handle_summary_callback                                                 *)
(***************************************************************************)
\* the locked section up to its first await: sweep, get, branch
\* held = TRUE when the lock was handed over to c, FALSE when c took it free
CbLockedSection(c, key, held) ==
    LET tbl == CleanupExpired(pending, 0)
        request == tbl[key]
        outcome == Decide(request)
    IN  /\ swept' = SweptEntries(pending, 0)
        /\ IF outcome = "won"
           THEN /\ pending' = [tbl EXCEPT ![key].in_progress = TRUE]
                /\ wins' = [wins EXCEPT ![request.id] = @ + 1]
                /\ cb' = [cb EXCEPT ![c].pc = "answer", ![c].key = key,
                                    ![c].req = request.id, ![c].outcome = "won"]
                /\ IF held THEN Release ELSE LockUntouched
           ELSE /\ pending' = tbl
                /\ UNCHANGED wins
                /\ cb' = [cb EXCEPT ![c].pc = "fail_answer", ![c].key = key,
                                    ![c].req = request.id, ![c].outcome = outcome]
                /\ lockOwner' = c
                /\ UNCHANGED lockQ

\* the button is pressed: the key is parsed and the lock is asked for
CbBegin(c, k) ==
    /\ cb[c].pc = "idle"
    /\ StartsInOrder(cb, c)
    /\ \/ /\ LockFree
          /\ CbLockedSection(c, k, FALSE)
       \/ /\ Suspend(c)
          /\ cb' = [cb EXCEPT ![c].pc = "wait_lock", ![c].key = k]
          /\ swept' = {}
          /\ UNCHANGED <<pending, wins>>
    /\ UNCHANGED <<now, add>>

CbResume(c) ==
    /\ cb[c].pc = "wait_lock"
    /\ lockOwner = c
    /\ CbLockedSection(c, cb[c].key, TRUE)
    /\ UNCHANGED <<now, add>>

\* a failure branch, the lock still held: await callback.answer(...), which
\* may raise, then await _mark_button_in_progress(message) and return
CbFailAnswer(c, ok) ==
    /\ cb[c].pc = "fail_answer"
    /\ cb' = IF ok
             THEN [cb EXCEPT ![c].pc = "fail_mark",
                             ![c].answer = AnswerText(cb[c].outcome)]
             ELSE [cb EXCEPT ![c].pc = "raised", ![c].raised = TRUE]
    /\ swept' = {}
    /\ UNCHANGED <<pending, lockOwner, lockQ, now, add, wins>>

\* the failure branch returns, or its exception leaves the async with:
\* the lock is released
CbFailReturn(c) ==
    /\ cb[c].pc \in {"fail_mark", "raised"}
    /\ lockOwner = c
    /\ cb' = [cb EXCEPT ![c] = DoneCb]
    /\ Release
    /\ swept' = {}
    /\ UNCHANGED <<pending, now, add, wins>>

\* the winner, the lock released: await _mark_button_in_progress(message),
\* then await callback.answer("starting"), which is outside the try: a raise
\* ends the handler with the entry left in the table
CbAnswer(c, ok) ==
    /\ cb[c].pc = "answer"
    /\ cb' = IF ok
             THEN [cb EXCEPT ![c].pc = "process",
                             ![c].answer = AnswerText("won")]
             ELSE [cb EXCEPT ![c] = DoneCb]
    /\ swept' = {}
    /\ UNCHANGED <<pending, lockOwner, lockQ, now, add, wins>>

\* await _process_voice_request(...) ends (it returns, or an exception
\* escapes it) and the finally block asks for the lock to pop the key;
\* _remove_keyboard follows when nothing was raised
CbProcessEnds(c, raises) ==
    /\ cb[c].pc = "process"
    /\ \/ /\ LockFree
          /\ pending' = PopRequest(pending, cb[c].key)
          /\ cb' = [cb EXCEPT ![c] = DoneCb]
          /\ LockUntouched
       \/ /\ Suspend(c)
          /\ cb' = [cb EXCEPT ![c].pc = "wait_pop", ![c].raised = raises]
          /\ UNCHANGED pending
    /\ swept' = {}
    /\ UNCHANGED <<now, add, wins>>

CbPopResume(c) ==
    /\ cb[c].pc = "wait_pop"
    /\ lockOwner = c
    /\ pending' = PopRequest(pending, cb[c].key)
    /\ Release
    /\ cb' = [cb EXCEPT ![c] = DoneCb]
    /\ swept' = {}
    /\ UNCHANGED <<now, add, wins>>


(***************************************************************************)
(* The task queue: TaskQueueManager over asyncio.Queue, its worker loops,  *)
(* and VoicePipeline.process_voice as the producer of jobs.  A job is      *)
(* named by the process_voice call that created it.                        *)
(***************************************************************************)
Producers == 1..NumProducers
Workers == 1..NumWorkers

VARIABLES
    qkind,        \* "asyncio": TaskQueueManager; "immediate": ImmediateTaskQueue
    maxsize,      \* asyncio.Queue(maxsize=maxsize)
    items,        \* Queue._queue: the jobs waiting, oldest first
    putters,      \* Queue._putters: producers suspended in put(), in order
    getters,      \* Queue._getters: workers suspended in get(), in order
    unfinished,   \* Queue._unfinished_tasks
    shutdownFlag, \* TaskQueueManager._shutdown_event
    shutPc,       \* position of the shutdown() call
    wk,           \* each worker loop: pc, job, woken, cancel
    prod,         \* each process_voice call: pc, woken, returned
    job,          \* each job: its result future, the outcome of its pipeline
                  \* run, how often the future was set, how often the
                  \* job was started
    order         \* the accepted jobs that have not ended, in the order
                  \* put_nowait accepted them

queueVars == <<qkind, maxsize, items, putters, getters, unfinished, shutdownFlag,
               shutPc, wk, prod, job, order>>

\* states of a result future
NoFuture == [kind |-> "none", text |-> <<>>, error |-> ""]
PendingFuture == [kind |-> "pending", text |-> <<>>, error |-> ""]

\* set_result(text) and set_exception(an exception of class error)
Result(text) == [kind |-> "result", text |-> text, error |-> ""]
Raised(error) == [kind |-> "exception", text |-> <<>>, error |-> error]

\* what _run_pipeline can end with: a text, or one of its exceptions
JobOutcomes ==
    {Result(<<"a">>), Raised("TranscriptionError")}

NoJob == [fut |-> NoFuture, ran |-> NoFuture, sets |-> 0, starts |-> 0]

IdleProd == [pc |-> "idle", woken |-> FALSE, returned |-> NoFuture]
DoneProd == [pc |-> "done", woken |-> FALSE, returned |-> NoFuture]

OffWorker == [pc |-> "off", job |-> 0, woken |-> FALSE, cancel |-> FALSE]
ExitedWorker == [pc |-> "exited", job |-> 0, woken |-> FALSE, cancel |-> FALSE]
CrashedWorker == [pc |-> "crashed", job |-> 0, woken |-> FALSE, cancel |-> FALSE]

\* a runner that reports every outcome as a result
RunnerSwallows(future, outcome) ==
    IF future = PendingFuture THEN Result(outcome.text) ELSE future

\* runner(): set_exception / set_result, each guarded by "not result_future.done()"
RunnerResolves(future, outcome) ==
    IF future = PendingFuture THEN outcome ELSE future

\* a get that leaves the item in the queue
DequeueKeeps(q) == [item |-> Head(q), rest |-> q]

\* a queue that hands out its newest item
DequeueNewest(q) == [item |-> q[Len(q)], rest |-> SubSeq(q, 1, Len(q) - 1)]

\* Queue._get of asyncio.Queue: popleft
Dequeue(q) == [item |-> Head(q), rest |-> Tail(q)]

\* a queue that never reports full
NeverFull(q, m) == FALSE

\* a queue for which every maxsize is a bound
AlwaysBounded(q, m) == Len(q) >= m

\* Queue.full(): maxsize <= 0 means unbounded
Full(q, m) == IF m <= 0 THEN FALSE ELSE Len(q) >= m

\* the getters wakeup_next skips: their future is done because the task
\* waiting on it was cancelled
RECURSIVE SkipCancelled(_)
SkipCancelled(ws) ==
    IF ws = <<>> THEN <<>>
    ELSE IF wk[Head(ws)].cancel THEN SkipCancelled(Tail(ws))
    ELSE ws

RemoveFrom(ws, x) == SelectSeq(ws, LAMBDA y : y # x)

\* the queue as constructed, its capacity one of limits
QueueInitWith(limits) ==
    /\ qkind \in {"asyncio", "immediate"}
    /\ maxsize \in limits
    /\ items = <<>>
    /\ putters = <<>>
    /\ getters = <<>>
    /\ unfinished = 0
    /\ shutdownFlag = FALSE
    /\ shutPc = "no"
    /\ wk = [w \in Workers |-> OffWorker]
    /\ prod = [p \in Producers |-> IdleProd]
    /\ job = [p \in Producers |-> NoJob]
    /\ order = <<>>

QueueInit == QueueInitWith(1..QueueLimit)

\* Queue.get_nowait by worker w, then _execute_task starts the job: the job
\* runs up to its first await.  wk0, job0: the workers and jobs as the
\* caller's earlier statements left them
TakeJob(w, wk0, job0) ==
    LET j == Dequeue(items).item
    IN  /\ items' = Dequeue(items).rest
        /\ IF putters = <<>>
           THEN UNCHANGED <<putters, prod>>
           ELSE /\ putters' = Tail(putters)
                /\ prod' = [prod EXCEPT ![Head(putters)].woken = TRUE]
        /\ wk' = [wk0 EXCEPT ![w] = [pc |-> "running", job |-> j,
                                     woken |-> FALSE, cancel |-> FALSE]]
        /\ job' = [job0 EXCEPT ![j].starts = @ + 1]
        /\ UNCHANGED getters

\* Queue.get() by worker w: "while self.empty()" suspends, else get_nowait
GetAttempt(w, wk0, job0) ==
    IF items = <<>>
    THEN /\ getters' = Append(getters, w)
         /\ wk' = [wk0 EXCEPT ![w] = [pc |-> "get_wait", job |-> 0,
                                      woken |-> FALSE, cancel |-> FALSE]]
         /\ job' = job0
         /\ UNCHANGED <<items, putters, prod>>
    ELSE TakeJob(w, wk0, job0)

\* a worker loop that does not look at the shutdown event
LoopIgnoresFlag(w, wk0, job0) == GetAttempt(w, wk0, job0)

\* "while not self._shutdown_event.is_set()": leave the loop or pull a job
LoopTop(w, wk0, job0) ==
    IF shutdownFlag
    THEN /\ wk' = [wk0 EXCEPT ![w] = ExitedWorker]
         /\ job' = job0
         /\ UNCHANGED <<items, putters, getters, prod>>
    ELSE GetAttempt(w, wk0, job0)

\* a start_workers that creates one task whatever the count
OneWorker(off, count) == {w \in off : \A v \in off : w <= v}

\* "for index in range(count): create_task(...)": the tasks one call creates,
\* taken from the identities off that are not in use
NewWorkers(off, count) ==
    {w \in off : Cardinality({v \in off : v < w}) < count}

\* start_workers(count): count more worker tasks are created
StartWorkers(count) ==
    LET off == {w \in Workers : wk[w].pc = "off"}
        new == NewWorkers(off, count)
    IN  /\ qkind = "asyncio"
        /\ count >= 1
        /\ Cardinality(off) >= count
        /\ wk' = [w \in Workers |->
                    IF w \in new THEN [OffWorker EXCEPT !.pc = "top"] ELSE wk[w]]
        /\ UNCHANGED <<qkind, maxsize, items, putters, getters, unfinished,
                       shutdownFlag, shutPc, prod, job, order>>

\* the worker task runs for the first time
WorkerFirstRun(w) ==
    /\ wk[w].pc = "top"
    /\ IF wk[w].cancel
       THEN \* cancelled before its first step: the coroutine body never runs
            /\ wk' = [wk EXCEPT ![w] = ExitedWorker]
            /\ UNCHANGED <<items, putters, getters, prod, job>>
       ELSE LoopTop(w, wk, job)
    /\ UNCHANGED <<qkind, maxsize, unfinished, shutdownFlag, shutPc, order>>

\* a worker woken in get() runs again: it rechecks empty()
WorkerWakes(w) ==
    /\ wk[w].pc = "get_wait"
    /\ wk[w].woken
    /\ ~wk[w].cancel
    /\ GetAttempt(w, wk, job)
    /\ UNCHANGED <<qkind, maxsize, unfinished, shutdownFlag, shutPc, order>>

\* a task_done() that always raises
AlwaysRaises == TRUE

\* Queue.task_done() in the finally of the loop: ValueError when nothing is unfinished
TaskDoneRaises == unfinished <= 0
AfterTaskDone == IF unfinished <= 0 THEN unfinished ELSE unfinished - 1

\* the job of worker w ends with outcome o: runner resolves the future, the
\* loop marks the job done and goes round
JobFinishes(w, o) ==
    LET j == wk[w].job
        job1 == [job EXCEPT ![j].fut = RunnerResolves(job[j].fut, o),
                            ![j].ran = o,
                            ![j].sets = @ + 1]
    IN  /\ wk[w].pc = "running"
        /\ ~wk[w].cancel
        /\ unfinished' = AfterTaskDone
        /\ IF TaskDoneRaises
           THEN /\ wk' = [wk EXCEPT ![w] = CrashedWorker]
                /\ job' = job1
                /\ UNCHANGED <<items, putters, getters, prod>>
           ELSE LoopTop(w, wk, job1)
        /\ order' = RemoveFrom(order, j)
        /\ UNCHANGED <<qkind, maxsize, shutdownFlag, shutPc>>

\* CancelledError is raised inside the job of worker w: it passes through
\* runner's "except Exception", the loop breaks and task_done() runs
JobCancelled(w) ==
    /\ wk[w].pc = "running"
    /\ wk[w].cancel
    /\ unfinished' = AfterTaskDone
    /\ wk' = [wk EXCEPT ![w] = IF TaskDoneRaises THEN CrashedWorker ELSE ExitedWorker]
    /\ order' = RemoveFrom(order, wk[w].job)
    /\ UNCHANGED <<qkind, maxsize, items, putters, getters, shutdownFlag, shutPc,
                   prod, job>>

\* CancelledError is raised in a worker suspended in get(): get() removes its
\* getter, passes on a wakeup it had received, the loop breaks and
\* task_done() runs although no job was pulled
GetCancelled(w) ==
    LET rest == RemoveFrom(getters, w)
        live == SkipCancelled(rest)
        pass == wk[w].woken /\ items # <<>> /\ live # <<>>
        wk1 == IF pass THEN [wk EXCEPT ![Head(live)].woken = TRUE] ELSE wk
    IN  /\ wk[w].pc = "get_wait"
        /\ wk[w].cancel
        /\ getters' = IF pass THEN Tail(live)
                      ELSE IF wk[w].woken /\ items # <<>> THEN live ELSE rest
        /\ unfinished' = AfterTaskDone
        /\ wk' = [wk1 EXCEPT ![w] = IF TaskDoneRaises THEN CrashedWorker
                                    ELSE ExitedWorker]
        /\ UNCHANGED <<qkind, maxsize, items, putters, shutdownFlag, shutPc,
                       prod, job, order>>

\* shutdown(): set the event, cancel every worker task, then gather them;
\* at: where its caller stands when it calls
ShutdownFrom(at) ==
    /\ qkind = "asyncio"
    /\ shutPc = at
    /\ shutdownFlag' = TRUE
    /\ shutPc' = "gather"
    /\ wk' = [w \in Workers |->
                IF wk[w].pc \in {"top", "get_wait", "running"}
                THEN [wk[w] EXCEPT !.cancel = TRUE] ELSE wk[w]]
    /\ UNCHANGED <<qkind, maxsize, items, putters, getters, unfinished, prod,
                   job, order>>

\* shutdown() called by anyone while the queue is in use
Shutdown == ShutdownFrom("no")

\* a gather that does not wait
GatherAtOnce == TRUE

\* "await asyncio.gather(*self._workers, ...)": the tasks of the list, all of
\* them cancelled in the loop before, have ended
GatherDone == \A w \in Workers : ~wk[w].cancel

\* gather returned; self._workers.clear() forgets the tasks, among them one
\* that start_workers added meanwhile and that has not run yet
ShutdownReturns ==
    /\ shutPc = "gather"
    /\ GatherDone
    /\ shutPc' = "returned"
    /\ wk' = [w \in Workers |->
                IF wk[w].pc \in {"exited", "crashed"} THEN OffWorker ELSE wk[w]]
    /\ UNCHANGED <<qkind, maxsize, items, putters, getters, unfinished,
                   shutdownFlag, prod, job, order>>

\* Queue.put_nowait(runner) by producer p, who then awaits the result future
PutNowait(p, prod0) ==
    LET live == SkipCancelled(getters)
    IN  /\ items' = Append(items, p)
        /\ unfinished' = unfinished + 1
        /\ order' = Append(order, p)
        /\ IF live = <<>>
           THEN /\ getters' = <<>>
                /\ UNCHANGED wk
           ELSE /\ getters' = Tail(live)
                /\ wk' = [wk EXCEPT ![Head(live)].woken = TRUE]
        /\ prod' = [prod0 EXCEPT ![p].pc = "await_future", ![p].woken = FALSE]
        /\ UNCHANGED putters

\* Queue.put(runner): "while self.full()" suspends, else put_nowait
PutAttempt(p, prod0) ==
    IF Full(items, maxsize)
    THEN /\ putters' = Append(putters, p)
         /\ prod' = [prod0 EXCEPT ![p].pc = "put_wait", ![p].woken = FALSE]
         /\ UNCHANGED <<items, unfinished, order, getters, wk>>
    ELSE PutNowait(p, prod0)

\* process_voice(audio_path) with a path inside the temporary directory: the
\* future is created and runner is enqueued; ImmediateTaskQueue.enqueue
\* awaits runner() in the caller's own task
ProcessVoice(p) ==
    /\ prod[p].pc = "idle"
    /\ \A q \in Producers : q < p => prod[q].pc # "idle"
    /\ IF qkind = "immediate"
       THEN /\ prod' = [prod EXCEPT ![p].pc = "inline"]
            /\ job' = [job EXCEPT ![p].fut = PendingFuture, ![p].starts = @ + 1]
            /\ order' = Append(order, p)
            /\ UNCHANGED <<items, putters, getters, unfinished, wk>>
       ELSE /\ job' = [job EXCEPT ![p].fut = PendingFuture]
            /\ PutAttempt(p, prod)
    /\ UNCHANGED <<qkind, maxsize, shutdownFlag, shutPc>>

\* a producer woken in put() runs again: it rechecks full()
ProducerWakes(p) ==
    /\ prod[p].pc = "put_wait"
    /\ prod[p].woken
    /\ PutAttempt(p, prod)
    /\ UNCHANGED <<qkind, maxsize, shutdownFlag, shutPc, job>>

\* the inline runner ends with outcome o: the future is resolved, enqueue
\* returns and "return await result_future" returns or raises at once
InlineFinishes(p, o) ==
    LET f == RunnerResolves(job[p].fut, o)
    IN  /\ prod[p].pc = "inline"
        /\ job' = [job EXCEPT ![p].fut = f, ![p].ran = o, ![p].sets = @ + 1]
        /\ prod' = [prod EXCEPT ![p].pc = "returned", ![p].returned = f]
        /\ order' = RemoveFrom(order, p)
        /\ UNCHANGED <<qkind, maxsize, items, putters, getters, unfinished,
                       shutdownFlag, shutPc, wk>>

\* "return await result_future": the future is done, the caller runs again
\* and returns the result or raises the exception
FutureDelivered(p) ==
    /\ prod[p].pc = "await_future"
    /\ job[p].fut.kind \in {"result", "exception"}
    /\ prod' = [prod EXCEPT ![p].pc = "returned", ![p].returned = job[p].fut]
    /\ UNCHANGED <<qkind, maxsize, items, putters, getters, unfinished,
                   shutdownFlag, shutPc, wk, job, order>>

\* the caller of process_voice has used the outcome and ends: nothing refers
\* to the future any more
CallerEnds(p) ==
    /\ prod[p].pc = "returned"
    /\ prod' = [prod EXCEPT ![p] = DoneProd]
    /\ job' = [job EXCEPT ![p] = NoJob]
    /\ UNCHANGED <<qkind, maxsize, items, putters, getters, unfinished,
                   shutdownFlag, shutPc, wk, order>>

\* Future.cancel(): the task that awaits the future was cancelled
CancelledFuture == [kind |-> "cancelled", text |-> <<>>, error |-> "CancelledError"]

\* the task of the caller is cancelled while process_voice is suspended.  In
\* put(): the putter is removed, a wakeup it had received is passed on, and
\* runner is never enqueued.  In "await result_future": the future is
\* cancelled and CancelledError is raised in the caller; the job stays where
\* it is, in the queue or in its worker
CallerCancelled(p) ==
    /\ prod[p].pc \in {"put_wait", "await_future"}
    /\ IF prod[p].pc = "put_wait"
       THEN /\ IF prod[p].woken /\ ~Full(items, maxsize) /\ putters # <<>>
               THEN /\ putters' = Tail(putters)
                    /\ prod' = [prod EXCEPT ![p].pc = "cancelled",
                                            ![p].woken = FALSE,
                                            ![Head(putters)].woken = TRUE]
               ELSE /\ putters' = RemoveFrom(putters, p)
                    /\ prod' = [prod EXCEPT ![p].pc = "cancelled",
                                            ![p].woken = FALSE]
            /\ UNCHANGED job
       ELSE /\ job' = [job EXCEPT ![p].fut =
                         IF @ = PendingFuture THEN CancelledFuture ELSE @]
            /\ prod' = [prod EXCEPT ![p].pc = "cancelled"]
            /\ UNCHANGED putters
    /\ UNCHANGED <<qkind, maxsize, items, getters, unfinished, shutdownFlag,
                   shutPc, wk, order>>

(***************************************************************************)
(* The voice pipeline: VoicePipeline.process_voice with the job run inline *)
(* (ImmediateTaskQueue of tests/test_pipeline.py), _run_pipeline step by   *)
(* step, the converter's output file and AudioProcessor.cleanup.           *)
(***************************************************************************)
VARIABLES
    pvPc,            \* process_voice: "idle", "enqueued", "returned"
    result_future,   \* result_future of process_voice
    pvReturned,      \* what process_voice returned or raised
    runPc,           \* _run_pipeline: the await it is suspended in
    wav_path,        \* local wav_path: "None" or "wav"
    transcript,      \* local transcript
    formatted_text,  \* local formatted_text
    outcome,         \* what _run_pipeline is returning or raising
    artifact,        \* the converter's output file exists on disk
    cleanups,        \* calls of audio_processor.cleanup made by this run
    seen             \* history: what the steps did

pipeVars == <<pvPc, result_future, pvReturned, runPc, wav_path, transcript,
              formatted_text, outcome, artifact, cleanups, seen>>

\* the characters of a text: a whitespace character and two others
Chars == {" ", "a", "b"}
Whitespace == {" "}

Strings == UNION {[1..n -> Chars] : n \in 0..MaxLen}

\* str.lstrip(), str.rstrip() and str.strip() without argument
RECURSIVE LStrip(_)
LStrip(t) ==
    IF t # <<>> /\ Head(t) \in Whitespace THEN LStrip(Tail(t)) ELSE t

RECURSIVE RStrip(_)
RStrip(t) ==
    IF t # <<>> /\ t[Len(t)] \in Whitespace
    THEN RStrip(SubSeq(t, 1, Len(t) - 1)) ELSE t

Strip(t) == RStrip(LStrip(t))

\* a fallback that hands the transcript on as whisper gave it
Untrimmed(text) == text

\* "result = transcript.strip()" of both except branches
FallbackResult(text) == Strip(text)

\* a result taken from the transcript also when the formatter succeeded
TranscriptWins(text, formatted) == Strip(text)

\* "result = formatted_text.strip()" of the else branch
FormattedResult(text, formatted) == Strip(formatted)

\* a finally block that releases nothing
NeverCleanup(path) == FALSE

\* "if wav_path is not None" of the finally block
NeedsCleanup(path) == path # "None"

\* the task was cancelled: CancelledError, which "except Exception" lets pass
Cancelled == [kind |-> "cancelled", text |-> <<>>, error |-> "CancelledError"]

NoSteps == [created |-> FALSE, transcript |-> NoFuture, format |-> NoFuture,
            steps |-> <<>>, unexpected |-> "", event |-> "", path |-> ""]

\* how a step that runs in a thread ends: it returns, it fails in the way the
\* step is written for (ffmpeg exits non-zero, the WAV is invalid, whisper
\* fails), it raises anything else (ffmpeg is not installed, an OSError), or
\* the task is cancelled
StepEnds == {"ok", "raise", "unexpected", "cancel"}

\* "except Exception" of _convert, _validate and _transcribe: every exception
\* of the step is wrapped alike
Wrapped(how) == how \in {"raise", "unexpected"}

\* the step that raised an exception it was not written for, if any
Unexpected(how, step) == IF how = "unexpected" THEN step ELSE ""

\* the awaits of _run_pipeline in the order of its statements
Steps == <<"convert", "validate", "transcribe", "format">>

\* a run that repeats the step it has done
SameStep(step) == step

\* the statement after the await of step, reached when the step returned
NextStep(step) ==
    CASE step = "convert" -> "validate"
      [] step = "validate" -> "transcribe"
      [] step = "transcribe" -> "format"

PipeInit ==
    /\ pvPc = "idle"
    /\ result_future = NoFuture
    /\ pvReturned = NoFuture
    /\ runPc = "none"
    /\ wav_path = "None"
    /\ transcript = <<>>
    /\ formatted_text = <<>>
    /\ outcome = NoFuture
    /\ artifact = FALSE
    /\ cleanups = 0
    /\ seen = NoSteps

\* _run_pipeline leaves its try block with outcome o and enters "finally"
Leave(o) ==
    /\ outcome' = o
    /\ runPc' = "finally"

\* a path check that lets every path through
AcceptsAnyPath(check) == "ok"

\* _ensure_within_tmp_dir(audio_path): the path does not exist, or it does
\* and lies outside tmp_dir, or it is returned resolved
EnsureWithinTmpDir(check) ==
    CASE check = "missing" -> "FileNotFoundError"
      [] check = "outside" -> "AudioValidationError"
      [] OTHER -> "ok"

\* process_voice(audio_path): _ensure_within_tmp_dir raises, or the future is
\* created and enqueue runs runner() inline up to the await inside _convert
ProcessVoiceCall(check) ==
    /\ pvPc = "idle"
    /\ IF EnsureWithinTmpDir(check) = "ok"
       THEN /\ pvPc' = "enqueued"
            /\ result_future' = PendingFuture
            /\ runPc' = "convert"
            /\ UNCHANGED pvReturned
       ELSE /\ pvPc' = "returned"
            /\ pvReturned' = Raised(EnsureWithinTmpDir(check))
            /\ UNCHANGED <<result_future, runPc>>
    /\ seen' = [seen EXCEPT !.path = check]
    /\ UNCHANGED <<wav_path, transcript, formatted_text, outcome, artifact,
                   cleanups>>

\* "wav_path = await self._convert(source_path)": convert_to_wav returns the
\* output path, or raises (with or without ffmpeg having written the output
\* file) and _convert raises AudioConversionError, or the task is cancelled
\* while the thread goes on
Convert(how, made) ==
    /\ runPc = "convert"
    /\ how = "ok" => made
    /\ artifact' = made
    /\ seen' = [seen EXCEPT !.created = made, !.steps = Append(@, "convert"),
                            !.unexpected = Unexpected(how, "convert")]
    /\ CASE how = "ok" ->
              /\ wav_path' = "wav"
              /\ runPc' = NextStep("convert")
              /\ UNCHANGED outcome
         [] Wrapped(how) ->
              /\ Leave(Raised("AudioConversionError"))
              /\ UNCHANGED wav_path
         [] how = "cancel" ->
              /\ Leave(Cancelled)
              /\ UNCHANGED wav_path
    /\ UNCHANGED <<pvPc, result_future, pvReturned, transcript, formatted_text,
                   cleanups>>

\* "await self._validate(wav_path)"
Validate(how) ==
    /\ runPc = "validate"
    /\ seen' = [seen EXCEPT !.steps = Append(@, "validate"),
                            !.unexpected = Unexpected(how, "validate")]
    /\ CASE how = "ok" -> runPc' = NextStep("validate") /\ UNCHANGED outcome
         [] Wrapped(how) -> Leave(Raised("AudioValidationError"))
         [] how = "cancel" -> Leave(Cancelled)
    /\ UNCHANGED <<pvPc, result_future, pvReturned, wav_path, transcript,
                   formatted_text, artifact, cleanups>>

\* "transcript = await self._transcribe(wav_path)", then formatted_text = ""
Transcribe(how, text) ==
    /\ runPc = "transcribe"
    /\ how # "ok" => text = <<>>
    /\ CASE how = "ok" ->
              /\ transcript' = text
              /\ runPc' = NextStep("transcribe")
              /\ seen' = [seen EXCEPT !.transcript = Result(text),
                                      !.steps = Append(@, "transcribe")]
              /\ UNCHANGED outcome
         [] Wrapped(how) ->
              /\ Leave(Raised("TranscriptionError"))
              /\ seen' = [seen EXCEPT !.transcript = Raised("TranscriptionError"),
                                      !.steps = Append(@, "transcribe"),
                                      !.unexpected = Unexpected(how, "transcribe")]
              /\ UNCHANGED transcript
         [] how = "cancel" ->
              /\ Leave(Cancelled)
              /\ seen' = [seen EXCEPT !.transcript = Cancelled,
                                      !.steps = Append(@, "transcribe")]
              /\ UNCHANGED transcript
    /\ UNCHANGED <<pvPc, result_future, pvReturned, wav_path, formatted_text,
                   artifact, cleanups>>

\* what happens to a call of format_text: the answer is streamed to its end,
\* the request is refused (RequestError, ResponseError), the server stalls
\* before it answers the request or in the middle of the stream, the stream
\* breaks, or the task is cancelled
FormatEvents ==
    {"done", "request_error", "stall_start", "stall_stream", "stream_error",
     "cancel"}

Stalls == {"stall_start", "stall_stream"}

\* the await of format_text in which an event happens: generate(stream=True)
\* checks its arguments and returns the stream, the request is sent when
\* _stream_response asks for the first part
PhaseOf(ev) == IF ev = "request_error" THEN "generate" ELSE "stream"

\* a format_text without wait_for
NoTimeout(phase) == FALSE

\* asyncio.wait_for(self._stream_response(stream), timeout=...) is around the
\* stream phase only
UnderTimeout(phase) == phase = "stream"

\* how format_text ends: it returns, it raises (RuntimeError, TimeoutError),
\* the task is cancelled, or it waits for ever
FormatTextEnds(ev) ==
    CASE ev = "done" -> "ok"
      [] ev \in {"request_error", "stream_error"} -> "raise"
      [] ev \in Stalls -> IF UnderTimeout(PhaseOf(ev)) THEN "raise" ELSE "hang"
      [] ev = "cancel" -> "cancel"

\* "formatted_text = await self._format(transcript)" with its except and else
\* branches, then both locals are emptied and "return result" enters finally;
\* _format turns every exception of the client into FormattingError
Format(ev, text) ==
    LET how == FormatTextEnds(ev)
    IN  /\ runPc = "format"
        /\ how # "ok" => text = <<>>
        /\ CASE how = "ok" ->
                  /\ Leave(Result(FormattedResult(transcript, text)))
                  /\ seen' = [seen EXCEPT !.format = Result(text), !.event = ev,
                                          !.steps = Append(@, "format")]
                  /\ transcript' = <<>>
             [] how = "raise" ->
                  /\ Leave(Result(FallbackResult(transcript)))
                  /\ seen' = [seen EXCEPT !.format = Raised("FormattingError"),
                                          !.event = ev,
                                          !.steps = Append(@, "format")]
                  /\ transcript' = <<>>
             [] how = "cancel" ->
                  /\ Leave(Cancelled)
                  /\ seen' = [seen EXCEPT !.format = Cancelled, !.event = ev,
                                          !.steps = Append(@, "format")]
                  /\ UNCHANGED transcript
             [] how = "hang" ->
                  /\ runPc' = "hung"
                  /\ seen' = [seen EXCEPT !.event = ev,
                                          !.steps = Append(@, "format")]
                  /\ UNCHANGED <<outcome, transcript>>
        /\ formatted_text' = <<>>
    /\ UNCHANGED <<pvPc, result_future, pvReturned, wav_path, artifact, cleanups>>

\* the finally block: cleanup(wav_path) when wav_path is set (unlink removes
\* the file, or fails with an OSError that cleanup only logs), transcript is
\* emptied, and runner() stores the outcome in the future unless it is a
\* cancellation
Finally(unlinked) ==
    /\ runPc = "finally"
    /\ IF NeedsCleanup(wav_path)
       THEN /\ cleanups' = cleanups + 1
            /\ artifact' = (artifact /\ ~unlinked)
       ELSE /\ unlinked = FALSE
            /\ UNCHANGED <<cleanups, artifact>>
    /\ transcript' = <<>>
    /\ runPc' = "ended"
    /\ result_future' = IF outcome = Cancelled THEN result_future
                        ELSE RunnerResolves(result_future, outcome)
    /\ UNCHANGED <<pvPc, pvReturned, wav_path, formatted_text, outcome, seen>>

\* enqueue has returned: "return await result_future" returns the result or
\* raises the exception; a cancellation has come up through enqueue instead
ProcessVoiceReturns ==
    /\ pvPc = "enqueued"
    /\ runPc = "ended"
    /\ pvPc' = "returned"
    /\ pvReturned' = IF outcome = Cancelled THEN Cancelled ELSE result_future
    /\ UNCHANGED <<result_future, runPc, wav_path, transcript, formatted_text,
                   outcome, artifact, cleanups, seen>>

(***************************************************************************)
(* The handler around the pipeline: _process_immediate_request,            *)
(* _download_and_process_audio and _process_downloaded_audio, and the      *)
(* formatting client the pipeline is built with.                           *)
(***************************************************************************)
VARIABLES
    client,          \* formatting_client: "llm" (FormattingLLMClient) or "stub"
    hPc,             \* the handler: "none", "download", "call", "await", "done"
    hOutcome,        \* how the handler ended: "returned", "raised", "cancelled"
    replies,         \* the bot.send_message calls of the handler, in order
    srcFile,         \* download_path exists on disk
    srcCleanups      \* calls of audio_processor.cleanup(download_path)

handlerVars == <<client, hPc, hOutcome, replies, srcFile, srcCleanups>>

\* a canned message, and a reply that carries a text
Canned(msg) == [msg |-> msg, text |-> <<>>]
TextReply(text) == [msg |-> "text", text |-> text]

\* a handler that answers every failure with the retry message
AlwaysRetryLater(error) == Canned("processing_failed")

\* the except clauses of _process_downloaded_audio
ErrorReply(error) ==
    IF error \in {"AudioConversionError", "AudioValidationError"}
    THEN Canned("audio_unprocessable")
    ELSE Canned("processing_failed")

\* a handler that sends the text as it is
ReplyAsIs(response) == TextReply(Strip(response))

\* text = (response or "").strip(), replaced by the sentinel when empty
SuccessReply(response) ==
    IF Strip(response) = <<>> THEN Canned("empty_input")
    ELSE TextReply(Strip(response))

\* FormattingLLMClient.format_text: "" without a request for a blank text,
\* else the streamed answer stripped, or an exception; a stub returns any
\* text or raises
ClientAllows(ev, text) ==
    \/ /\ client = "stub"
       /\ ev \in {"done", "request_error", "cancel"}
    \/ /\ client = "llm"
       /\ IF Strip(transcript) = <<>>
          THEN ev = "done" /\ text = <<>>
          ELSE ev = "done" => text = Strip(text)

HandlerInit ==
    /\ hPc = "none"
    /\ hOutcome = "none"
    /\ replies = <<>>
    /\ srcFile = FALSE
    /\ srcCleanups = 0

\* _process_immediate_request: a message of a private chat goes straight to
\* _download_and_process_audio, which awaits bot.download
StartImmediate ==
    /\ hPc = "none"
    /\ pvPc = "idle"
    /\ hPc' = "download"
    /\ UNCHANGED <<client, hOutcome, replies, srcFile, srcCleanups>>

\* "await bot.download(...)" ends: the file is there, or TelegramAPIError or
\* another exception is answered with a message and the handler returns
Download(how, sent) ==
    /\ hPc = "download"
    /\ how = "ok" => sent
    /\ CASE how = "ok" ->
              /\ hPc' = "call"
              /\ srcFile' = TRUE
              /\ UNCHANGED <<hOutcome, replies>>
         [] how = "api_error" ->
              /\ hPc' = "done"
              /\ replies' = Append(replies, Canned("download_failed"))
              /\ hOutcome' = IF sent THEN "returned" ELSE "raised"
              /\ UNCHANGED srcFile
         [] how = "error" ->
              /\ hPc' = "done"
              /\ replies' = Append(replies, Canned("download_error"))
              /\ hOutcome' = IF sent THEN "returned" ELSE "raised"
              /\ UNCHANGED srcFile
    /\ UNCHANGED <<client, srcCleanups>>

\* _process_downloaded_audio: "response = await _PIPELINE.process_voice(...)"
HandlerCalls(check) ==
    /\ hPc = "call"
    /\ ProcessVoiceCall(check)
    /\ hPc' = "await"
    /\ UNCHANGED <<client, hOutcome, replies, srcFile, srcCleanups>>

\* process_voice has returned or raised: the except clause or the code after
\* the try sends one message (send_message may raise), and the finally block
\* cleans up download_path; a cancellation only passes through the finally
HandleOutcome(sent) ==
    /\ hPc = "await"
    /\ pvPc = "returned"
    /\ hPc' = "done"
    /\ srcCleanups' = srcCleanups + 1
    /\ srcFile' = FALSE
    /\ CASE pvReturned.kind = "exception" ->
              /\ replies' = Append(replies, ErrorReply(pvReturned.error))
              /\ hOutcome' = IF sent THEN "returned" ELSE "raised"
         [] pvReturned.kind = "result" ->
              /\ replies' = Append(replies, SuccessReply(pvReturned.text))
              /\ hOutcome' = IF sent THEN "returned" ELSE "raised"
         [] pvReturned.kind = "cancelled" ->
              /\ sent = FALSE
              /\ hOutcome' = "cancelled"
              /\ UNCHANGED replies
    /\ UNCHANGED client

(***************************************************************************)
(* The handler as the owner of a job's resources:                          *)
(* _download_and_process_audio saves the file, _process_downloaded_audio   *)
(* awaits process_voice and deletes the file in its finally block; for a   *)
(* confirmed request handle_summary_callback then pops the entry it had    *)
(* marked in_progress.                                                     *)
(***************************************************************************)
VARIABLES
    owner            \* per process_voice call: the downloaded file ("none",
                     \* "present", "deleted"), the calls of
                     \* cleanup(download_path), and whether the request's
                     \* entry is in the table with in_progress set

ownerVars == <<owner>>

NoOwner == [file |-> "none", releases |-> 0, processing |-> FALSE]

OwnerInit == owner = [p \in Producers |-> NoOwner]

\* "finally: cleanup(download_path)" of _process_downloaded_audio, then the
\* pop in the finally block of handle_summary_callback
ReleaseAll(o) ==
    [file |-> "deleted", releases |-> o.releases + 1, processing |-> FALSE]

\* the job of call p is waiting in the queue or is being executed
JobInFlight(p) ==
    \/ \E i \in 1..Len(items) : items[i] = p
    \/ \E w \in Workers : wk[w].pc = "running" /\ wk[w].job = p

\* the file is downloaded and process_voice(download_path) is called
OwnerCalls(p) ==
    /\ ProcessVoice(p)
    /\ owner' = [owner EXCEPT ![p] = [file |-> "present", releases |-> 0,
                                      processing |-> TRUE]]

\* process_voice has returned or raised: the reply is sent and the finally
\* blocks run
OwnerEnds(p) ==
    /\ CallerEnds(p)
    /\ owner' = [owner EXCEPT ![p] = ReleaseAll(@)]

\* the handler task is cancelled while it awaits process_voice:
\* CancelledError passes the except clauses and the finally blocks run
OwnerCancelled(p) ==
    /\ CallerCancelled(p)
    /\ owner' = [owner EXCEPT ![p] = ReleaseAll(@)]

(***************************************************************************)
(* The callers of start_workers: bootstrap calls it once; calls records    *)
(* the count of every call made.                                           *)
(***************************************************************************)
VARIABLES
    calls            \* history: the counts start_workers was called with

bootVars == <<calls>>

BootInit == calls = <<>>

(***************************************************************************)
(* The message handlers: handle_voice_messages and                         *)
(* handle_audio_like_messages send a message of a group chat to            *)
(* _queue_summary_request and every other one to                           *)
(* _process_immediate_request.                                             *)
(***************************************************************************)
VARIABLES
    inbox            \* message.chat.type of the messages handled, in order

routeVars == <<inbox>>

ChatTypes == {"private", "group", "supergroup", "channel"}

\* a handler that sends every chat to the button flow
AnyChat(chat) == TRUE

\* _is_group_chat(message)
IsGroupChat(chat) == chat \in {"group", "supergroup"}

RouteInit == inbox = <<>>

\* the texts whisper and the formatter give in SpecRoute
RouteTexts == {<<>>, <<"a">>}

\* a voice or audio message of chat type chat arrives: the button flow
\* (adder a, key k) in a group, the immediate flow elsewhere
MessageArrives(chat, a, k) ==
    /\ inbox' = Append(inbox, chat)
    /\ IF IsGroupChat(chat)
       THEN /\ AddBegin(a, k)
            /\ UNCHANGED <<queueVars, pipeVars, handlerVars, bootVars, ownerVars>>
       ELSE /\ a = <<"add", 1>> /\ k = "1:10"
            /\ StartImmediate
            /\ UNCHANGED <<storeVars, queueVars, pipeVars, bootVars, ownerVars>>

\* a step of a call of _queue_summary_request after its locked section
AdderOnly == UNCHANGED <<queueVars, pipeVars, handlerVars, routeVars, bootVars, ownerVars>>

\* a step of the pipeline or of its handler leaves the table and the queue alone
PipeOnly == UNCHANGED <<storeVars, queueVars, routeVars, bootVars, ownerVars>>

\* a step inside process_voice leaves the handler where it is
RunOnly == PipeOnly /\ UNCHANGED handlerVars

\* a step of the handler outside process_voice
HandlerOnly == PipeOnly /\ UNCHANGED pipeVars

PipeNext ==
    \/ \E check \in {"ok", "missing", "outside"} :
          hPc = "none" /\ ProcessVoiceCall(check) /\ RunOnly
    \/ \E how \in StepEnds, made \in BOOLEAN : Convert(how, made) /\ RunOnly
    \/ \E how \in StepEnds : Validate(how) /\ RunOnly
    \/ \E how \in StepEnds, text \in Strings : Transcribe(how, text) /\ RunOnly
    \/ \E ev \in FormatEvents, text \in Strings :
          ClientAllows(ev, text) /\ Format(ev, text) /\ RunOnly
    \/ \E unlinked \in BOOLEAN : Finally(unlinked) /\ RunOnly
    \/ ProcessVoiceReturns /\ RunOnly
    \/ StartImmediate /\ HandlerOnly
    \/ \E how \in {"ok", "api_error", "error"}, sent \in BOOLEAN : Download(how, sent) /\ HandlerOnly
    \/ \E check \in {"ok", "missing"} : HandlerCalls(check) /\ PipeOnly
    \/ \E sent \in BOOLEAN : HandleOutcome(sent) /\ HandlerOnly

\* a step of the queue, its workers and producers leaves the rest alone
QueueOnly == UNCHANGED <<storeVars, pipeVars, handlerVars, routeVars, bootVars, ownerVars>>

QueueNext ==
    \/ \E count \in 1..NumWorkers : StartWorkers(count) /\ QueueOnly
    \/ \E w \in Workers : WorkerFirstRun(w) /\ QueueOnly
    \/ \E w \in Workers : WorkerWakes(w) /\ QueueOnly
    \/ \E w \in Workers, o \in JobOutcomes : JobFinishes(w, o) /\ QueueOnly
    \/ \E w \in Workers : JobCancelled(w) /\ QueueOnly
    \/ \E w \in Workers : GetCancelled(w) /\ QueueOnly
    \/ Shutdown /\ QueueOnly
    \/ ShutdownReturns /\ QueueOnly
    \/ \E p \in Producers : ProcessVoice(p) /\ QueueOnly
    \/ \E p \in Producers : ProducerWakes(p) /\ QueueOnly
    \/ \E p \in Producers, o \in JobOutcomes : InlineFinishes(p, o) /\ QueueOnly
    \/ \E p \in Producers : FutureDelivered(p) /\ QueueOnly
    \/ \E p \in Producers : CallerEnds(p) /\ QueueOnly

\* "await task_queue.start_workers(count)"
StartWorkersCall(count) ==
    /\ StartWorkers(count)
    /\ calls' = Append(calls, count)
    /\ UNCHANGED <<storeVars, pipeVars, handlerVars, routeVars, ownerVars>>

\* the queue while nobody shuts it down, with the start_workers calls recorded
StartNext ==
    \/ \E count \in 1..NumWorkers : StartWorkersCall(count)
    \/ \E w \in Workers : WorkerFirstRun(w) /\ QueueOnly
    \/ \E w \in Workers : WorkerWakes(w) /\ QueueOnly
    \/ \E w \in Workers, o \in JobOutcomes : JobFinishes(w, o) /\ QueueOnly
    \/ \E p \in Producers : ProcessVoice(p) /\ QueueOnly
    \/ \E p \in Producers : ProducerWakes(p) /\ QueueOnly
    \/ \E p \in Producers, o \in JobOutcomes : InlineFinishes(p, o) /\ QueueOnly
    \/ \E p \in Producers : FutureDelivered(p) /\ QueueOnly
    \/ \E p \in Producers : CallerEnds(p) /\ QueueOnly

\* a step of the queue in SpecOwner leaves the handlers' resources alone
OwnerOnly == UNCHANGED <<storeVars, pipeVars, handlerVars, routeVars, bootVars>>

\* a step of a task that is ready to run, in SpecOwner
OwnerRuns ==
    \/ \E p \in Producers : OwnerEnds(p) /\ OwnerOnly
    \/ \E count \in 1..NumWorkers : StartWorkers(count) /\ QueueOnly
    \/ \E w \in Workers : WorkerFirstRun(w) /\ QueueOnly
    \/ \E w \in Workers : WorkerWakes(w) /\ QueueOnly
    \/ \E w \in Workers, o \in JobOutcomes : JobFinishes(w, o) /\ QueueOnly
    \/ \E w \in Workers : JobCancelled(w) /\ QueueOnly
    \/ \E w \in Workers : GetCancelled(w) /\ QueueOnly
    \/ ShutdownReturns /\ QueueOnly
    \/ \E p \in Producers : ProducerWakes(p) /\ QueueOnly
    \/ \E p \in Producers, o \in JobOutcomes : InlineFinishes(p, o) /\ QueueOnly
    \/ \E p \in Producers : FutureDelivered(p) /\ QueueOnly

\* the queue with the handlers that own the files of its jobs: a handler
\* calls process_voice, a handler is cancelled, the queue is shut down, or a
\* ready task runs
OwnerNext ==
    \/ \E p \in Producers : OwnerCalls(p) /\ OwnerOnly
    \/ \E p \in Producers : OwnerCancelled(p) /\ OwnerOnly
    \/ Shutdown /\ QueueOnly
    \/ OwnerRuns

\* a step of the pending table and its handlers leaves the rest alone
StoreOnly == UNCHANGED <<queueVars, pipeVars, handlerVars, routeVars, bootVars, ownerVars>>

StoreNext ==
    \/ Tick /\ StoreOnly
    \/ \E a \in Adders, k \in Keys : AddBegin(a, k) /\ StoreOnly
    \/ \E a \in Adders : AddResume(a) /\ StoreOnly
    \/ \E a \in Adders : AddReplyOk(a) /\ StoreOnly
    \/ \E a \in Adders : AddReplyFails(a) /\ StoreOnly
    \/ \E a \in Adders : AddPopResume(a) /\ StoreOnly
    \/ \E c \in Callbacks, k \in Keys : CbBegin(c, k) /\ StoreOnly
    \/ \E c \in Callbacks : CbResume(c) /\ StoreOnly
    \/ \E c \in Callbacks, ok \in BOOLEAN : CbFailAnswer(c, ok) /\ StoreOnly
    \/ \E c \in Callbacks : CbFailReturn(c) /\ StoreOnly
    \/ \E c \in Callbacks, ok \in BOOLEAN : CbAnswer(c, ok) /\ StoreOnly
    \/ \E c \in Callbacks, raises \in BOOLEAN : CbProcessEnds(c, raises) /\ StoreOnly
    \/ \E c \in Callbacks : CbPopResume(c) /\ StoreOnly

\* the messages of any chat, the button flow without confirmations and the
\* immediate flow with its pipeline run
RouteNext ==
    \/ \E chat \in ChatTypes, a \in Adders, k \in Keys : MessageArrives(chat, a, k)
    \/ \E a \in Adders : AddReplyOk(a) /\ AdderOnly
    \/ \E a \in Adders : AddReplyFails(a) /\ AdderOnly
    \/ \E how \in {"ok", "api_error", "error"}, sent \in BOOLEAN : Download(how, sent) /\ HandlerOnly
    \/ \E check \in {"ok", "missing"} : HandlerCalls(check) /\ PipeOnly
    \/ \E how \in StepEnds, made \in BOOLEAN : Convert(how, made) /\ RunOnly
    \/ \E how \in StepEnds : Validate(how) /\ RunOnly
    \/ \E how \in StepEnds, text \in RouteTexts : Transcribe(how, text) /\ RunOnly
    \/ \E ev \in FormatEvents, text \in RouteTexts :
          ClientAllows(ev, text) /\ Format(ev, text) /\ RunOnly
    \/ \E unlinked \in BOOLEAN : Finally(unlinked) /\ RunOnly
    \/ ProcessVoiceReturns /\ RunOnly
    \/ \E sent \in BOOLEAN : HandleOutcome(sent) /\ HandlerOnly

vars == <<storeVars, queueVars, pipeVars, handlerVars, routeVars, bootVars, ownerVars>>

\* the pending table empty and the queue as bootstrap constructs it
Init ==
    /\ StoreInit
    /\ QueueInit
    /\ PipeInit
    /\ HandlerInit
    /\ RouteInit
    /\ BootInit
    /\ OwnerInit
    /\ qkind = "asyncio"
    /\ maxsize = 1
    /\ client = "llm"

\* the pending table empty and a queue of either kind, of any size up to the limit
InitQueue ==
    /\ StoreInit
    /\ QueueInit
    /\ PipeInit
    /\ HandlerInit
    /\ RouteInit
    /\ BootInit
    /\ OwnerInit
    /\ client = "llm"

\* the pipeline built with the real formatting client or with a stub
InitPipe ==
    /\ StoreInit
    /\ QueueInit
    /\ PipeInit
    /\ HandlerInit
    /\ RouteInit
    /\ BootInit
    /\ OwnerInit
    /\ qkind = "immediate"
    /\ maxsize = 1
    /\ client \in {"llm", "stub"}

\* the pending table and its handlers, the queue left as constructed
SpecStore == Init /\ [][StoreNext]_vars

\* the queue, its workers and producers, the pending table left empty
SpecQueue == InitQueue /\ [][QueueNext]_vars

\* a step the bot takes by itself: the clock, and the next step of a handler
\* that has started; the arrival of a message or of a button press is not one
StoreProgress ==
    \/ Tick /\ StoreOnly
    \/ \E a \in Adders : AddResume(a) /\ StoreOnly
    \/ \E a \in Adders, ok \in BOOLEAN :
          (IF ok THEN AddReplyOk(a) ELSE AddReplyFails(a)) /\ StoreOnly
    \/ \E a \in Adders : AddPopResume(a) /\ StoreOnly
    \/ \E c \in Callbacks : CbResume(c) /\ StoreOnly
    \/ \E c \in Callbacks, ok \in BOOLEAN : CbFailAnswer(c, ok) /\ StoreOnly
    \/ \E c \in Callbacks : CbFailReturn(c) /\ StoreOnly
    \/ \E c \in Callbacks, ok \in BOOLEAN : CbAnswer(c, ok) /\ StoreOnly
    \/ \E c \in Callbacks, raises \in BOOLEAN : CbProcessEnds(c, raises) /\ StoreOnly
    \/ \E c \in Callbacks : CbPopResume(c) /\ StoreOnly

\* time passes and the event loop runs every handler that is ready
StoreFairness == WF_vars(StoreProgress)

SpecStoreFair == SpecStore /\ StoreFairness

\* a step of the queue other than the operator's shutdown
QueueProgress ==
    \/ \E count \in 1..NumWorkers : StartWorkers(count) /\ QueueOnly
    \/ \E w \in Workers : WorkerFirstRun(w) /\ QueueOnly
    \/ \E w \in Workers : WorkerWakes(w) /\ QueueOnly
    \/ \E w \in Workers, o \in JobOutcomes : JobFinishes(w, o) /\ QueueOnly
    \/ \E p \in Producers : ProducerWakes(p) /\ QueueOnly

\* the event loop does not stop while a task is ready: the worker tasks are
\* started at bootstrap, a ready task is run and a job that was started ends
QueueFairness == WF_vars(QueueProgress)

SpecQueueFair == SpecQueue /\ QueueFairness

\* a step of a task that is ready to run: everything but the arrival of a
\* process_voice call and the operator's shutdown
QueueRuns ==
    \/ QueueProgress
    \/ \E w \in Workers : JobCancelled(w) /\ QueueOnly
    \/ \E w \in Workers : GetCancelled(w) /\ QueueOnly
    \/ ShutdownReturns /\ QueueOnly
    \/ \E p \in Producers, o \in JobOutcomes : InlineFinishes(p, o) /\ QueueOnly
    \/ \E p \in Producers : FutureDelivered(p) /\ QueueOnly
    \/ \E p \in Producers : CallerEnds(p) /\ QueueOnly

\* fair scheduling and terminating steps: a ready task is run, a cancellation
\* is delivered and a job that was started ends
SpecQueueLive == SpecQueue /\ WF_vars(QueueRuns)

\* the queue and the handlers that call process_voice, each the owner of
\* the file it downloaded
SpecOwner == InitQueue /\ [][OwnerNext]_vars

\* fair scheduling and terminating steps in SpecOwner
SpecOwnerLive == SpecOwner /\ WF_vars(OwnerRuns)

\* the queue from its construction up to, and without, a shutdown
SpecStart == InitQueue /\ [][StartNext]_vars

\* one process_voice call, alone or from the handler of a private chat, with
\* the job run inline; the table and the queue left as constructed
SpecPipe == InitPipe /\ [][PipeNext]_vars

\* the message handlers receiving messages of every chat type, the job of
\* the immediate flow run inline as in SpecPipe
SpecRoute == InitPipe /\ [][RouteNext]_vars

(***************************************************************************)
(* Claims about the pending table, checked under SpecStore.                *)
(***************************************************************************)
\* positions of a callback that has moved its entry to Processing and is
\* acknowledging, processing or waiting to pop the key
WinnerPcs == {"answer", "process", "wait_pop"}

\* positions of a callback on a failure branch of the locked section
LoserPcs == {"fail_answer", "fail_mark", "raised"}

\* C1: single-flight. However the callbacks on one key interleave, in_progress
\* is set at most once on a request object and at most one callback is past
\* the locked section for it; a callback is in download/processing only as
\* that winner; every other callback is on a failure branch exactly when the
\* table, which it still holds locked, has no entry under its key ("not
\* found") or an entry that a winner has already moved to Processing
\* ("already being processed"), and that is the answer it is given.
C1_SingleFlight ==
    /\ \A i \in EntryIds :
          /\ wins[i] <= 1
          /\ Cardinality({c \in Callbacks :
                            cb[c].pc \in WinnerPcs /\ cb[c].req = i}) <= 1
    /\ \A c \in Callbacks :
          /\ cb[c].pc \in WinnerPcs =>
                cb[c].outcome = "won" /\ wins[cb[c].req] = 1
          /\ cb[c].pc \in LoserPcs =>
                /\ lockOwner = c
                /\ cb[c].outcome \in {"notfound", "already"}
                /\ cb[c].outcome = "notfound" <=> pending[cb[c].key] = NoEntry
                /\ cb[c].outcome = "already" =>
                      /\ pending[cb[c].key].in_progress
                      /\ wins[pending[cb[c].key].id] = 1
          /\ cb[c].pc = "fail_mark" => cb[c].answer = AnswerText(cb[c].outcome)
          /\ cb[c].pc \in {"process", "wait_pop"} =>
                cb[c].answer = AnswerText("won")

\* two callbacks raced on one entry: one is processing it, the other was
\* answered "already being processed"
C1_Witness ==
    \E c1, c2 \in Callbacks :
        /\ c1 # c2
        /\ cb[c1].pc = "process"
        /\ cb[c2].pc = "fail_mark"
        /\ cb[c2].outcome = "already"
        /\ cb[c2].key = cb[c1].key
        /\ cb[c2].req = cb[c1].req

\* C2: the expiry sweep never removes an entry whose status is Processing.
C2_SweepSparesProcessing == \A e \in swept : ~e.in_progress

\* C3: under no key does the table step from a Processing entry to a Pending
\* entry; a Processing entry only ever ends by removal.
C3_NoProcessingToPending ==
    [][\A k \in Keys :
          (pending[k] # NoEntry /\ pending[k].in_progress) =>
              (pending'[k] = NoEntry \/ pending'[k].in_progress)]_storeVars

(***************************************************************************)
(* Claims about the task queue, checked under SpecQueue.                   *)
(***************************************************************************)
InItems(p) == \E i \in 1..Len(items) : items[i] = p

\* the workers that are executing job p
Executors(p) == {w \in Workers : wk[w].pc = "running" /\ wk[w].job = p}

\* job p has been started: a worker, or the caller itself, is executing it
Started(p) == Executors(p) # {} \/ prod[p].pc = "inline"

\* C4: backpressure.  A queue of maxsize c >= 1 never holds more than c
\* jobs; an enqueue is suspended only when c jobs are waiting, stays
\* suspended (in the putters) until a worker's removal of a job wakes it, and
\* leaves put() only by having its own job appended while there is room: the
\* job is neither dropped nor rejected.
C4_Backpressure ==
    /\ [](/\ Len(items) <= maxsize
          /\ \A p \in Producers :
                /\ (prod[p].pc = "put_wait" /\ ~prod[p].woken) =>
                      \E i \in 1..Len(putters) : putters[i] = p
                /\ prod[p].pc = "put_wait" => ~InItems(p) /\ ~Started(p)
                /\ (prod[p].pc = "await_future" /\ job[p].fut = PendingFuture
                    /\ shutPc = "no") => InItems(p) \/ Started(p))
    /\ [][\A p \in Producers :
            /\ (prod[p].pc # "put_wait" /\ prod'[p].pc = "put_wait") =>
                  Len(items) = maxsize
            /\ (~prod[p].woken /\ prod'[p].woken) =>
                  Len(items') = Len(items) - 1
            /\ (prod[p].pc = "put_wait" /\ prod'[p].pc # "put_wait") =>
                  /\ prod[p].woken
                  /\ Len(items) < maxsize
                  /\ prod'[p].pc = "await_future"
                  /\ items' = Append(items, p)]_vars

\* under SpecQueueFair: while the event loop runs and nobody shuts the queue
\* down, every suspended enqueue is accepted in the end
EnqueueEventuallyAccepted ==
    \A p \in Producers :
        (qkind = "asyncio" /\ prod[p].pc = "put_wait") ~>
            (prod[p].pc = "await_future" \/ shutPc # "no")

\* an enqueue that was suspended on a full queue has been woken by a
\* worker's removal and finds room for its job
C4_Witness ==
    \E p \in Producers :
        /\ prod[p].pc = "put_wait"
        /\ prod[p].woken
        /\ maxsize >= 1
        /\ Len(items) = maxsize - 1
        /\ \E w \in Workers : wk[w].pc = "running"

\* C5: FIFO.  Among the accepted jobs that have not ended, none has been
\* started while a job accepted before it is still waiting.
C5_Fifo ==
    \A i, j \in 1..Len(order) :
        (i < j /\ Started(order[j])) => Started(order[i])

\* a worker has started the oldest of three accepted jobs and the two
\* accepted after it wait in the queue
C5_Witness ==
    /\ Len(order) = 3
    /\ Executors(order[1]) # {}
    /\ items = <<order[2], order[3]>>

\* C6: the result future of a job is set at most once, to the outcome of the
\* job's pipeline run, by the one executor that holds the job (a job is never
\* held twice, nor still queued or held once its future is set), and
\* process_voice returns or raises exactly that outcome.
C6_FutureOnce ==
    \A p \in Producers :
        /\ job[p].sets <= 1
        /\ Cardinality(Executors(p)) + (IF InItems(p) THEN 1 ELSE 0)
             + (IF prod[p].pc = "inline" THEN 1 ELSE 0) <= 1
        /\ job[p].fut.kind \in {"result", "exception"} =>
              /\ job[p].sets = 1
              /\ job[p].fut = job[p].ran
              /\ ~InItems(p) /\ ~Started(p)
        /\ job[p].fut = PendingFuture => job[p].sets = 0
        /\ prod[p].pc = "returned" =>
              /\ prod[p].returned.kind \in {"result", "exception"}
              /\ prod[p].returned = job[p].ran

\* the inline queue ran the job to an exception before process_voice awaited
\* the future, and process_voice raised it
C6_Witness ==
    \E p \in Producers :
        /\ qkind = "immediate"
        /\ prod[p].pc = "returned"
        /\ prod[p].returned.kind = "exception"
        /\ job[p].sets = 1

(***************************************************************************)
(* Claims about the pipeline, checked under SpecPipe.                      *)
(***************************************************************************)
\* _run_pipeline has left its try block
RunLeft == runPc \in {"finally", "ended"}

\* the outcome of the run, the future once the run has ended and what
\* process_voice gave back once it has returned are all o
Delivers(o) ==
    /\ outcome = o
    /\ runPc = "ended" => result_future = o
    /\ pvPc = "returned" => pvReturned = o

\* C7: formatter fallback.  When Convert, Validate and Transcribe succeeded
\* and the Format step raised, the run ends normally with the transcript
\* whisper gave, trimmed of surrounding whitespace, and process_voice returns
\* it as a result: nothing is raised.
C7_FormatterFallback ==
    (RunLeft /\ seen.format = Raised("FormattingError")) =>
        /\ seen.transcript.kind = "result"
        /\ Delivers(Result(Strip(seen.transcript.text)))

\* process_voice has returned a trimmed transcript that had whitespace around
\* it, after the formatter raised
C7_Witness ==
    /\ pvPc = "returned"
    /\ seen.format = Raised("FormattingError")
    /\ pvReturned.kind = "result"
    /\ pvReturned.text # <<>>
    /\ pvReturned.text # seen.transcript.text

\* C8: success path.  When all four steps succeeded, process_voice returns
\* the formatter's output trimmed of surrounding whitespace, whatever the
\* transcript was.
C8_SuccessPath ==
    (RunLeft /\ seen.format.kind = "result") =>
        /\ seen.transcript.kind = "result"
        /\ Delivers(Result(Strip(seen.format.text)))

\* process_voice has returned a formatter output that had whitespace around
\* it and that differs from the trimmed transcript
C8_Witness ==
    /\ pvPc = "returned"
    /\ seen.format.kind = "result"
    /\ pvReturned.kind = "result"
    /\ pvReturned.text # seen.format.text
    /\ pvReturned.text # <<>>
    /\ pvReturned.text # Strip(seen.transcript.text)

\* C9: cleanup is invoked only when the run ends, at most once, and exactly
\* once whenever Convert returned a path: after success, validation failure,
\* transcription failure, formatter fallback and cancellation alike.
C9_CleanupOnce ==
    /\ cleanups <= 1
    /\ runPc # "ended" => cleanups = 0
    /\ runPc = "ended" => (cleanups = 1 <=> wav_path = "wav")
    /\ wav_path = "wav" => seen.created

\* the run ended through the formatter fallback and cleanup ran once
C9_Witness ==
    /\ runPc = "ended"
    /\ seen.format = Raised("FormattingError")
    /\ outcome.kind = "result"
    /\ cleanups = 1
    /\ ~artifact

\* C10: when the converter fails, the run raises AudioConversionError and the
\* output file the converter created before failing, if any, has been handed
\* to cleanup exactly once when the run has ended.
C10_ConverterFailure ==
    (runPc = "ended" /\ seen.steps = <<"convert">> /\ outcome.kind = "exception") =>
        /\ Delivers(Raised("AudioConversionError"))
        /\ seen.created => cleanups = 1

(***************************************************************************)
(* Claims about the handler of a request, checked under SpecPipe.          *)
(***************************************************************************)
\* C11: a handler that got an exception from process_voice has sent exactly
\* one message: the "audio cannot be processed" one for AudioConversionError
\* and AudioValidationError, the "failed, try again later" one for every
\* other exception; never both, none, or a text of its own.
C11_ErrorMessages ==
    (hPc = "done" /\ pvReturned.kind = "exception") =>
        /\ pvReturned.error \in {"AudioConversionError", "AudioValidationError"}
              => replies = <<Canned("audio_unprocessable")>>
        /\ pvReturned.error \notin {"AudioConversionError", "AudioValidationError"}
              => replies = <<Canned("processing_failed")>>

\* a transcription failure has been answered with the retry message
C11_Witness ==
    /\ hPc = "done"
    /\ hOutcome = "returned"
    /\ pvReturned = Raised("TranscriptionError")
    /\ replies = <<Canned("processing_failed")>>

\* C18: when the transcript has non-whitespace text and the run returns a
\* result, the result is not the empty string, whatever the formatter gave.
C18_NeverEmptyResult ==
    (RunLeft /\ outcome.kind = "result" /\ seen.transcript.kind = "result"
       /\ Strip(seen.transcript.text) # <<>>) =>
        outcome.text # <<>>

\* C19: with FormattingLLMClient, a transcript that is empty or only
\* whitespace ends the request normally with one message, the "empty input"
\* sentinel: no error message and no empty text.
C19_EmptyTranscript ==
    (client = "llm" /\ hPc = "done" /\ seen.transcript.kind = "result"
       /\ Strip(seen.transcript.text) = <<>>) =>
        /\ pvReturned = Result(<<>>)
        /\ replies = <<Canned("empty_input")>>

\* a transcript of whitespace only has been answered with the sentinel
C19_Witness ==
    /\ client = "llm"
    /\ hPc = "done"
    /\ hOutcome = "returned"
    /\ seen.transcript.kind = "result"
    /\ seen.transcript.text # <<>>
    /\ Strip(seen.transcript.text) = <<>>
    /\ replies = <<Canned("empty_input")>>

(***************************************************************************)
(* Further claims about the task queue, checked under SpecQueue.           *)
(***************************************************************************)
\* a worker loop that has been created and has not ended
LiveWorkerPcs == {"top", "get_wait", "running"}

\* C12: when the job of a worker ends with an exception, the worker marks
\* it done and goes on to pull the next job (it waits for one or runs one);
\* a worker loop ends only after Shutdown has cancelled it or set the flag.
C12_WorkerSurvives ==
    [][\A w \in Workers :
         /\ (wk[w].pc = "running" /\ ~wk[w].cancel
             /\ job[wk[w].job].ran = NoFuture
             /\ job'[wk[w].job].ran.kind = "exception") =>
               /\ wk'[w].pc \in {"get_wait", "running"}
               /\ unfinished' = unfinished - 1
         /\ (wk[w].pc \in LiveWorkerPcs /\ wk'[w].pc \notin LiveWorkerPcs) =>
               (wk[w].cancel \/ shutdownFlag)]_vars

\* the only worker that was started has had a job end with an exception and
\* is running the next one
C12_Witness ==
    \E w \in Workers, p \in Producers :
        /\ ~shutdownFlag
        /\ \A v \in Workers \ {w} : wk[v].pc = "off"
        /\ wk[w].pc = "running"
        /\ wk[w].job # p
        /\ job[p].ran.kind = "exception"

\* C20: Shutdown sets the flag and cancels every worker loop that was
\* started; it returns only when all of them have ended, so that from its
\* return on no worker loop waits for a job or runs one (a loop created
\* after the cancellation can only find the flag set and end); the flag is
\* never cleared.
C20_Shutdown ==
    /\ [](shutdownFlag <=> shutPc # "no")
    /\ [](shutPc = "returned" =>
            \A w \in Workers : wk[w].pc \notin {"get_wait", "running"} /\ ~wk[w].cancel)
    /\ [][/\ shutdownFlag => shutdownFlag'
          /\ (shutPc = "no" /\ shutPc' = "gather") =>
                \A w \in Workers : wk[w].pc \in LiveWorkerPcs => wk'[w].cancel
          /\ (shutPc = "gather" /\ shutPc' = "returned") =>
                \A w \in Workers : wk[w].pc \in LiveWorkerPcs =>
                    (wk[w].pc = "top" /\ ~wk[w].cancel)]_vars

\* Shutdown has returned after cancelling a worker in the middle of a job:
\* the caller of that job still waits and no worker is left
C20_Witness ==
    /\ shutPc = "returned"
    /\ shutdownFlag
    /\ \A w \in Workers : wk[w].pc = "off"
    /\ \E p \in Producers :
          /\ prod[p].pc = "await_future"
          /\ job[p].fut = PendingFuture
          /\ ~InItems(p)

(***************************************************************************)
(* Further claims about the pending table, checked under SpecStore.        *)
(***************************************************************************)
\* callback c runs its locked section in this step
Confirms(c) ==
    /\ cb[c].pc \in {"idle", "wait_lock"}
    /\ cb'[c].pc \in {"answer", "fail_answer"}

\* adder a runs its locked section in this step
Adds(a) ==
    /\ add[a].pc \in {"idle", "wait_lock"}
    /\ add'[a].pc = "reply"

FailedOutcomes == {"notfound", "already"}

\* C13: a confirmation that finds no entry or a Processing entry is on a
\* failure branch and nowhere else (no download, no job), it has answered
\* with the text of its branch once answer() returned, and none of its steps
\* changes an entry that exists: the one thing it may do to the table is
\* sweep Pending entries that have expired.
C13_FailedConfirmation ==
    /\ [](\A c \in Callbacks :
            cb[c].outcome \in FailedOutcomes =>
               /\ cb[c].pc \in LoserPcs
               /\ cb[c].pc = "fail_mark" =>
                     cb[c].answer \in {"not found or expired",
                                       "already being processed"})
    /\ [][\A c \in Callbacks :
            (cb'[c] # cb[c]
             /\ (cb[c].outcome \in FailedOutcomes \/ cb'[c].outcome \in FailedOutcomes)) =>
               /\ wins' = wins
               /\ \A k \in Keys :
                     pending[k] # NoEntry =>
                        \/ pending'[k] = pending[k]
                        \/ ~pending[k].in_progress /\ pending'[k] = NoEntry]_vars

\* C14: a confirmation of a key whose entry was never confirmed and is older
\* than the TTL, or has been swept already, finds no entry: it takes the
\* "not found" branch, marks nothing and leaves the key empty.
C14_ExpiredNotFound ==
    [][\A c \in Callbacks :
         (Confirms(c)
          /\ \/ pending[cb'[c].key] = NoEntry
             \/ /\ ~pending[cb'[c].key].in_progress
                /\ now - pending[cb'[c].key].created_at > REQUEST_TTL_SECONDS) =>
            /\ cb'[c].outcome = "notfound"
            /\ cb'[c].pc = "fail_answer"
            /\ pending'[cb'[c].key] = NoEntry
            /\ wins' = wins]_vars

\* a confirmation has just swept the expired Pending entry of its own key
\* and is on the "not found" branch
C14_Witness ==
    \E c \in Callbacks :
        /\ cb[c].pc = "fail_answer"
        /\ cb[c].outcome = "notfound"
        /\ \E e \in swept : e.key = cb[c].key /\ ~e.in_progress

\* the time a locked section of this step gives its sweep
SweepNows ==
    {now : c \in {c \in Callbacks : Confirms(c)}}
      \cup {add'[a].created : a \in {a \in Adders : Adds(a)}}

\* the keys this step's own store or mark writes
OwnKeys ==
    {cb'[c].key : c \in {c \in Callbacks : Confirms(c)}}
      \cup {add'[a].key : a \in {a \in Adders : Adds(a)}}

\* C15: a sweep run with time n removes every Pending entry with
\* n - created_at > TTL and keeps every Pending entry with
\* n - created_at <= TTL; after it no Pending entry older than the TTL is
\* in the table.
C15_SweepExact ==
    [][\A n \in SweepNows :
         /\ \A k \in Keys :
              (pending[k] # NoEntry /\ ~pending[k].in_progress) =>
                 IF n - pending[k].created_at > REQUEST_TTL_SECONDS
                 THEN /\ ([key |-> k] @@ pending[k]) \in swept'
                      /\ pending'[k] # pending[k]
                      /\ k \notin OwnKeys => pending'[k] = NoEntry
                 ELSE /\ ([key |-> k] @@ pending[k]) \notin swept'
                      /\ k \notin OwnKeys => pending'[k] = pending[k]
                      /\ pending'[k] # NoEntry
         /\ \A k \in Keys :
              (pending'[k] # NoEntry /\ ~pending'[k].in_progress) =>
                 n - pending'[k].created_at <= REQUEST_TTL_SECONDS]_vars

\* a sweep has removed a Pending entry and kept one whose age is the TTL
C15_Witness ==
    /\ \E e \in swept : ~e.in_progress
    /\ \E k \in Keys :
          /\ pending[k] # NoEntry
          /\ ~pending[k].in_progress
          /\ now - pending[k].created_at = REQUEST_TTL_SECONDS

\* C16: processing (download and enqueue) is started only by a callback that
\* has set in_progress on a request object; a call of _queue_summary_request
\* stores, replies and ends, and sets in_progress on nothing.
C16_ConfirmFirst ==
    /\ \A c \in Callbacks :
          cb[c].pc \in {"process", "wait_pop"} =>
             /\ cb[c].outcome = "won"
             /\ cb[c].req \in EntryIds
             /\ wins[cb[c].req] >= 1
    /\ \A a \in Adders :
          /\ add[a].pc \in {"idle", "wait_lock", "reply", "wait_pop", "done"}
          /\ (\A c \in Callbacks : cb[c].pc = "idle") => wins[a[2]] = 0

\* two requests are stored and only the confirmed one is being processed
C16_Witness ==
    \E c \in Callbacks, k \in Keys :
        /\ cb[c].pc = "process"
        /\ pending[cb[c].key].in_progress
        /\ k # cb[c].key
        /\ pending[k] # NoEntry
        /\ ~pending[k].in_progress
        /\ \A d \in Callbacks \ {c} : cb[d].pc = "idle"

(***************************************************************************)
(* Claims about the message handlers, checked under SpecRoute.             *)
(***************************************************************************)
\* a message arrives in this step and its chat is not a group
PrivateArrives ==
    /\ Len(inbox') = Len(inbox) + 1
    /\ inbox'[Len(inbox')] \notin {"group", "supergroup"}

\* C17: a message of a chat that is not a group starts the download at once
\* and neither it nor any later step of its handler and pipeline run reads
\* or changes the table or its lock; the handler leaves its await of
\* process_voice only when the call has returned, that is when the result
\* future of its job is resolved or the task is cancelled, or when the call
\* raised before it enqueued a job.
C17_ImmediateMode ==
    /\ [][/\ PrivateArrives =>
               /\ UNCHANGED storeVars
               /\ hPc = "none" /\ hPc' = "download"
          /\ (handlerVars' # handlerVars \/ pipeVars' # pipeVars) =>
               UNCHANGED storeVars
          /\ (hPc = "await" /\ hPc' # "await") =>
               /\ pvPc = "returned"
               /\ \/ result_future.kind \in {"result", "exception"}
                  \/ pvReturned = Cancelled
                  \/ result_future = NoFuture /\ pvReturned.kind = "exception"]_vars
    /\ [](hPc \in {"download", "call", "await"} =>
            \E i \in 1..Len(inbox) : inbox[i] \notin {"group", "supergroup"})
    /\ [](pvPc = "enqueued" => hPc = "await" /\ srcFile)

\* the handler of a private message waits for its job while the entry a
\* group message stored is in the table, untouched
C17_Witness ==
    /\ hPc = "await"
    /\ pvPc = "enqueued"
    /\ runPc = "transcribe"
    /\ inbox = <<"group", "private">>
    /\ \E k \in Keys : pending[k] # NoEntry /\ ~pending[k].in_progress


(***************************************************************************)
(* Claims about the end of a confirmed request, checked under SpecStore.   *)
(***************************************************************************)
\* the finally block of callback c pops its key in this step
PopsKey(c) == cb[c].pc \in {"process", "wait_pop"} /\ cb'[c].pc = "done"

\* C21: when _process_voice_request of a confirmed request ends, returning
\* or raising, the finally block pops the key: the key holds no entry after
\* the step, no entry of that request is left in the table, and a locked
\* section of a confirmation that finds the key empty answers "not found".
C21_PopOnEnd ==
    [][/\ \A c \in Callbacks : PopsKey(c) =>
             /\ pending'[cb[c].key] = NoEntry
             /\ \A k \in Keys : pending'[k].id # cb[c].req
       /\ \A c \in Callbacks :
             (/\ cb[c].outcome = "none"
              /\ cb'[c].outcome # "none"
              /\ CleanupExpired(pending, 0)[cb'[c].key] = NoEntry) =>
                 cb'[c].outcome = "notfound"]_vars

\* a request was confirmed and processed with the clock standing still, so
\* that no sweep removed it, and its key is empty after the pop
C21_Witness ==
    /\ now = TickStep
    /\ \E i \in EntryIds : wins[i] = 1 /\ \A k \in Keys : pending[k].id # i
    /\ \E c \in Callbacks : cb[c].pc = "done"
    /\ \A a \in Adders : add[a].pc \in {"idle", "done"}


\* C22: under SpecStoreFair, an entry that is not confirmed and is older
\* than the TTL is removed in the end, whether or not another message or
\* button press arrives.
C22_BackgroundSweep ==
    \A k \in Keys :
        (/\ pending[k] # NoEntry
         /\ ~pending[k].in_progress
         /\ now - pending[k].created_at > REQUEST_TTL_SECONDS)
            ~> (pending[k] = NoEntry \/ pending[k].in_progress)


\* C23: a handler that owns the lock while it is suspended has only been
\* handed the lock and not yet run: no handler is suspended in a call of the
\* chat platform (callback.answer, edit_reply_markup, reply) with the lock held.
C23_NoAwaitUnderLock ==
    /\ \A a \in Adders : lockOwner = a => add[a].pc \in {"wait_lock", "wait_pop"}
    /\ \A c \in Callbacks : lockOwner = c => cb[c].pc \in {"wait_lock", "wait_pop"}


(***************************************************************************)
(* Claims about unexpected failures, checked under SpecPipe.               *)
(***************************************************************************)
\* C24: a pipeline run in which a step raised an exception it was not
\* written for is answered with the retry-later message, the one a
\* transcription failure gets.
C24_UnexpectedIsGeneric ==
    (/\ hPc = "done"
     /\ seen.unexpected # ""
     /\ pvReturned.kind = "exception") =>
        /\ replies # <<>>
        /\ replies[Len(replies)] = ErrorReply("TranscriptionError")


(***************************************************************************)
(* Claims about the life of a job, checked under SpecQueue.                *)
(***************************************************************************)
\* how often job p is in the queue
TimesQueued(q, p) == Cardinality({i \in 1..Len(q) : q[i] = p})

\* C25: a job is started at most once and is never put into the queue a
\* second time: the queue is extended only by the put of a process_voice
\* call whose job has not been queued or started, and a job that has been
\* started, has ended or was cancelled is not in the queue.
C25_NoRetry ==
    /\ [](\A p \in Producers :
            /\ job[p].starts <= 1
            /\ TimesQueued(items, p) + job[p].starts <= 1)
    /\ [][\A p \in Producers :
            TimesQueued(items', p) > TimesQueued(items, p) =>
                /\ prod[p].pc \in {"idle", "put_wait"}
                /\ job[p].starts = 0
                /\ TimesQueued(items, p) = 0]_vars
    /\ [][\A p \in Producers : job'[p].starts > job[p].starts =>
                job[p].ran = NoFuture]_vars

\* a job has been run once and has raised, another was cancelled in its
\* run by shutdown, and the workers that ran them have gone on or ended
\* with the queue empty
C25_Witness ==
    /\ items = <<>>
    /\ \E p \in Producers :
          /\ job[p].starts = 1
          /\ job[p].ran.kind = "exception"
    /\ \E p \in Producers :
          /\ job[p].starts = 1
          /\ job[p].ran = NoFuture
          /\ \A w \in Workers : wk[w].pc # "running"


(***************************************************************************)
(* Claims about start_workers, checked under SpecStart.                    *)
(***************************************************************************)
\* the worker tasks that exist and have not ended
LiveWorkers == {w \in Workers : wk[w].pc \in {"top", "get_wait", "running"}}

RECURSIVE Sum(_)
Sum(counts) == IF counts = <<>> THEN 0 ELSE Head(counts) + Sum(Tail(counts))

\* C26: a call start_workers(count) creates exactly count worker tasks and
\* leaves every task that exists as it is; without a shutdown the tasks of
\* all calls are alive together, n + m of them after the calls with n and m.
C26_StartAdds ==
    /\ [][Len(calls') > Len(calls) =>
            LET count == calls'[Len(calls')]
            IN  /\ Cardinality(LiveWorkers') = Cardinality(LiveWorkers) + count
                /\ LiveWorkers \subseteq LiveWorkers'
                /\ \A w \in LiveWorkers : wk'[w] = wk[w]
                /\ \A w \in LiveWorkers' \ LiveWorkers : wk'[w].pc = "top"]_vars
    /\ [](Cardinality(LiveWorkers) = Sum(calls))

\* two calls of start_workers: the tasks of both are alive, one of the
\* first call already at work
C26_Witness ==
    /\ Len(calls) = 2
    /\ Cardinality(LiveWorkers) = calls[1] + calls[2]
    /\ \E w \in LiveWorkers : wk[w].pc = "running"


(***************************************************************************)
(* Claims about the accounting of the queue, checked under SpecQueue.      *)
(***************************************************************************)
\* C27: the unfinished-job counter of the queue is the number of accepted
\* jobs that have not ended (so that join() returns exactly when there is
\* none), and no task_done() has raised.
C27_DrainAccounting ==
    /\ qkind = "asyncio" => unfinished = Len(order)
    /\ \A w \in Workers : wk[w].pc # "crashed"


\* C28: under SpecQueueLive, a process_voice call whose job the queue has
\* accepted does not wait for its result future for ever.
C28_FutureEventuallyResolved ==
    \A p \in Producers :
        (prod[p].pc = "await_future") ~>
            (job[p].fut.kind \in {"result", "exception"} \/ prod[p].pc # "await_future")

\* what does hold under SpecQueueLive: the future is resolved unless the
\* queue is shut down first
FutureResolvedUnlessShutdown ==
    \A p \in Producers :
        (prod[p].pc = "await_future") ~>
            (\/ job[p].fut.kind \in {"result", "exception"}
             \/ prod[p].pc # "await_future"
             \/ shutPc # "no")


(***************************************************************************)
(* Claims about the order of the pipeline steps, checked under SpecPipe.   *)
(***************************************************************************)
\* the class a failure of a step is raised as
StepError(step) ==
    CASE step = "convert" -> "AudioConversionError"
      [] step = "validate" -> "AudioValidationError"
      [] step = "transcribe" -> "TranscriptionError"

\* C29: the steps a run has performed are a prefix of Convert, Validate,
\* Transcribe, Format, extended by one step at a time; a run that ends with
\* the error of Convert, Validate or Transcribe has performed that step last
\* and none after it.
C29_StepOrder ==
    /\ [](/\ Len(seen.steps) <= Len(Steps)
          /\ seen.steps = SubSeq(Steps, 1, Len(seen.steps)))
    /\ [][seen.steps' # seen.steps =>
            /\ Len(seen.steps') = Len(seen.steps) + 1
            /\ seen.steps = SubSeq(seen.steps', 1, Len(seen.steps))
            /\ runPc = seen.steps'[Len(seen.steps')]]_vars
    /\ [](\A i \in 1..3 :
            outcome = Raised(StepError(Steps[i])) => seen.steps = SubSeq(Steps, 1, i))
    /\ [](runPc \in {"finally", "ended"} /\ outcome.kind = "exception" =>
            \E i \in 1..3 : outcome = Raised(StepError(Steps[i])))

\* a run whose validation failed has returned: Convert and Validate were
\* performed, Transcribe and Format were not
C29_Witness ==
    /\ pvPc = "returned"
    /\ pvReturned = Raised("AudioValidationError")
    /\ seen.steps = <<"convert", "validate">>
    /\ seen.transcript = NoFuture
    /\ seen.format = NoFuture


C31_ReleaseAfterResolved ==
    \A p \in Producers :
        /\ owner[p].releases <= 1
        /\ owner[p].file = "deleted" => ~JobInFlight(p)


\* the worker that executed job p was cancelled in the middle of it and has
\* left its loop
CancelledMidJob(p) ==
    /\ job[p].starts = 1
    /\ job[p].ran = NoFuture
    /\ ~JobInFlight(p)
    /\ shutPc # "no"

\* C32: under SpecOwnerLive, after shutdown has cancelled the worker of a
\* job in the middle of its run, the entry of the job's request does not
\* stay in the table with in_progress set.
C32_CancelledJobEntry ==
    \A p \in Producers :
        (CancelledMidJob(p) /\ owner[p].processing) ~> ~owner[p].processing


\* C33: per-key single flight. At most one callback is past the locked section
\* (answering, processing, or waiting to pop) for a given key at any time,
\* under every interleaving of Add, Confirm and the sweep.
C33_OneJobPerKey ==
    \A k \in Keys :
        Cardinality({c \in Callbacks :
                        cb[c].pc \in WinnerPcs /\ cb[c].key = k}) <= 1


\* C34: an entry in status Processing always has its confirmation handler in
\* flight: some callback that won this very entry is answering, processing,
\* or waiting to pop it.
C34_ProcessingHasHandler ==
    \A k \in Keys :
        (pending[k] # NoEntry /\ pending[k].in_progress) =>
            \E c \in Callbacks :
                /\ cb[c].pc \in WinnerPcs
                /\ cb[c].key = k
                /\ cb[c].req = pending[k].id


\* C35: the pop at the end of a confirmation removes only the entry that this
\* confirmation marked Processing: whenever a callback's finally block pops
\* its key, the entry it takes out of the table (if any) is the request
\* object on which it set in_progress.
C35_PopsOwnEntry ==
    [][\A c \in Callbacks :
          (/\ cb[c].pc \in {"process", "wait_pop"}
           /\ cb'[c].pc = "done"
           /\ pending[cb[c].key] # NoEntry)
          => pending[cb[c].key].id = cb[c].req]_vars

(***************************************************************************)
(* bootstrap's finally block: polling has ended, "await                    *)
(* task_queue.queue.join()" and then "await task_queue.shutdown()", while   *)
(* the handler tasks that polling started are still running.               *)
(***************************************************************************)
\* Queue.join(): with no unfinished job it returns without suspending and
\* shutdown() is entered in the same step; otherwise bootstrap waits for
\* Queue._finished
PollingEnds ==
    /\ qkind = "asyncio"
    /\ shutPc = "no"
    /\ IF unfinished = 0
       THEN ShutdownFrom("no")
       ELSE /\ shutPc' = "join"
            /\ UNCHANGED <<qkind, maxsize, items, putters, getters, unfinished,
                           shutdownFlag, wk, prod, job, order>>

\* task_done() has brought the count to zero and set Queue._finished: the
\* waiter in join() is made ready to run
JoinWoken ==
    /\ shutPc = "join"
    /\ unfinished = 0
    /\ shutPc' = "joined"
    /\ UNCHANGED <<qkind, maxsize, items, putters, getters, unfinished,
                   shutdownFlag, wk, prod, job, order>>

\* bootstrap runs again: join() returns and shutdown() is called
JoinReturns == ShutdownFrom("joined")

DrainNext ==
    \/ \E count \in 1..NumWorkers : StartWorkers(count) /\ QueueOnly
    \/ \E w \in Workers : WorkerFirstRun(w) /\ QueueOnly
    \/ \E w \in Workers : WorkerWakes(w) /\ QueueOnly
    \/ \E w \in Workers, o \in JobOutcomes : JobFinishes(w, o) /\ QueueOnly
    \/ \E w \in Workers : JobCancelled(w) /\ QueueOnly
    \/ \E w \in Workers : GetCancelled(w) /\ QueueOnly
    \/ PollingEnds /\ QueueOnly
    \/ JoinWoken /\ QueueOnly
    \/ JoinReturns /\ QueueOnly
    \/ ShutdownReturns /\ QueueOnly
    \/ \E p \in Producers : ProcessVoice(p) /\ QueueOnly
    \/ \E p \in Producers : ProducerWakes(p) /\ QueueOnly
    \/ \E p \in Producers, o \in JobOutcomes : InlineFinishes(p, o) /\ QueueOnly
    \/ \E p \in Producers : FutureDelivered(p) /\ QueueOnly
    \/ \E p \in Producers : CallerEnds(p) /\ QueueOnly

SpecDrain == InitQueue /\ [][DrainNext]_vars

\* C36: in bootstrap's shutdown sequence the workers are cancelled only after
\* the drain wait has returned, and in the step in which shutdown() cancels
\* them no accepted job is waiting in the queue or being executed.
C36_CancelAfterDrain ==
    [][(shutPc # "gather" /\ shutPc' = "gather") =>
          /\ shutPc \in {"no", "joined"}
          /\ items = <<>>
          /\ \A w \in Workers : wk[w].pc # "running"]_vars


\* C37: once shutdown() has returned no job is started again: no step pulls a
\* job from the queue, starts one, or resolves a result future, and no worker
\* loop is left running a job or waiting in get(); a worker created by a
\* later start_workers leaves its loop at the first test of the event.
C37_NothingRunsAfterShutdown ==
    [][shutPc = "returned" =>
          /\ \A p \in Producers :
                /\ job'[p].starts <= job[p].starts
                /\ job'[p].sets <= job[p].sets
                /\ job[p].fut.kind = "pending" => job'[p].fut.kind = "pending"
          /\ \A i \in 1..Len(items) : items'[i] = items[i]
          /\ Len(items') >= Len(items)
          /\ \A w \in Workers : wk'[w].pc \notin {"running", "get_wait"}]_vars

\* after shutdown() returned a job is waiting in the queue, never started, its
\* caller waiting for the future, and a worker created afterwards has left
\* its loop without pulling it
C37_Witness ==
    /\ shutPc = "returned"
    /\ \E p \in Producers :
          /\ \E i \in 1..Len(items) : items[i] = p
          /\ prod[p].pc = "await_future"
          /\ job[p].starts = 0
          /\ job[p].fut.kind = "pending"
    /\ \E w \in Workers : wk[w].pc = "exited"


(***************************************************************************)
(* bootstrap with any configured TASK_QUEUE_LIMIT: load_config takes the   *)
(* text through int(), so 0 and negative values reach                      *)
(* TaskQueueManager(maxsize=...) and max(1, ...).                          *)
(***************************************************************************)
\* the values of config.task_queue_limit
Capacities == (0 - 1)..QueueLimit

\* "worker_count = max(1, config.task_queue_limit)"
WorkerCount(limit) == IF limit > 1 THEN limit ELSE 1

InitCapacity ==
    /\ StoreInit
    /\ QueueInitWith(Capacities)
    /\ qkind = "asyncio"
    /\ PipeInit
    /\ HandlerInit
    /\ RouteInit
    /\ BootInit
    /\ OwnerInit
    /\ client = "llm"

\* "await task_queue.start_workers(worker_count)", once
BootstrapStarts ==
    /\ calls = <<>>
    /\ StartWorkersCall(WorkerCount(maxsize))

CapacityNext ==
    \/ BootstrapStarts
    \/ \E w \in Workers : WorkerFirstRun(w) /\ QueueOnly
    \/ \E w \in Workers : WorkerWakes(w) /\ QueueOnly
    \/ \E w \in Workers, o \in JobOutcomes : JobFinishes(w, o) /\ QueueOnly
    \/ \E p \in Producers : ProcessVoice(p) /\ QueueOnly
    \/ \E p \in Producers : ProducerWakes(p) /\ QueueOnly
    \/ \E p \in Producers : FutureDelivered(p) /\ QueueOnly
    \/ \E p \in Producers : CallerEnds(p) /\ QueueOnly

SpecCapacity == InitCapacity /\ [][CapacityNext]_vars

\* C38: with a configured capacity of 0 or less the queue is unbounded: no
\* process_voice call is ever suspended in put(), and bootstrap starts exactly
\* max(1, limit) = 1 worker; with a capacity of 1 or more the number of
\* waiting jobs never exceeds the capacity and bootstrap starts that many
\* workers.
C38_Capacity ==
    /\ calls \in {<<>>, <<WorkerCount(maxsize)>>}
    /\ Cardinality({w \in Workers : wk[w].pc # "off"}) =
          IF calls = <<>> THEN 0 ELSE WorkerCount(maxsize)
    /\ maxsize <= 0 =>
          /\ putters = <<>>
          /\ \A p \in Producers : prod[p].pc # "put_wait"
          /\ WorkerCount(maxsize) = 1
    /\ maxsize >= 1 => Len(items) <= maxsize

\* capacity 0 or less, one worker started by bootstrap, and more jobs waiting
\* than any configured capacity of the model allows: every producer's job
WaitingBeyondLimit ==
    /\ maxsize <= 0
    /\ calls = <<1>>
    /\ Len(items) = NumProducers
    /\ Len(items) > QueueLimit

C38_Witness == WaitingBeyondLimit


\* C39: process_voice called with a path that does not exist, or that lies
\* outside the temporary directory, fails before a job exists: it raises
\* FileNotFoundError, respectively AudioValidationError; no result future is
\* created, no step of the pipeline runs for it, no artifact is written, and
\* the queue is as it was.
C39_RejectedBeforeEnqueue ==
    seen.path \in {"missing", "outside"} =>
        /\ pvPc = "returned"
        /\ pvReturned = Raised(IF seen.path = "missing" THEN "FileNotFoundError"
                               ELSE "AudioValidationError")
        /\ result_future = NoFuture
        /\ runPc = "none"
        /\ seen.steps = <<>>
        /\ outcome = NoFuture
        /\ ~artifact /\ cleanups = 0
        /\ items = <<>> /\ unfinished = 0 /\ order = <<>>
        /\ \A w \in Workers : wk[w].pc # "running"

\* a path outside the temporary directory has been refused
C39_Witness ==
    /\ seen.path = "outside"
    /\ pvPc = "returned"
    /\ pvReturned = Raised("AudioValidationError")
    /\ result_future = NoFuture


\* C40: a request that has reached the download step ends with exactly one
\* reply delivered: when the handler is done it has called send_message once
\* and the call returned; at no time has it called send_message twice.
C40_ExactlyOneReply ==
    /\ Len(replies) <= 1
    /\ hPc = "done" => (Len(replies) = 1 /\ hOutcome = "returned")


\* what does hold of the replies: send_message is never called twice, and a
\* handler that is done has called it once unless its task was cancelled
AtMostOneSend ==
    /\ Len(replies) <= 1
    /\ (hPc = "done" /\ hOutcome # "cancelled") => Len(replies) = 1

====
